---------------------------- MODULE Spec2Model ----------------------------
(***************************************************************************)
(* A model of the coadd assembly code of lsst.pipe.tasks:                  *)
(*   assembleCoadd.py  (AssembleCoaddTask, SafeClipAssembleCoaddTask,      *)
(*                      CompareWarpAssembleCoaddTask)                      *)
(* Each group of variables is the state of one part of the program; each   *)
(* specification (SpecTile, ...) runs one part, the other groups idle.     *)
(***************************************************************************)
EXTENDS Integers, Sequences, FiniteSets, TLC

VARIABLES
    \* ---- AssembleCoaddTask._subBBoxIter (a generator) ----
    bbox,           \* the patch bounding box (afwGeom.Box2I)
    subregionSize,  \* config.subregionSize as <<width, height>>
    rowShift,       \* the generator's outer loop variable
    colShift,       \* the generator's inner loop variable
    gen,            \* "start" | "yielded" | "exhausted" | "raised"
    tiles           \* the boxes yielded so far, in order

VARIABLES
    \* ---- AssembleCoaddTask.assemble and the subclasses' assemble ----
    strategy,       \* "base" | "safeClip" | "compareWarp": whose assemble runs
    scene,          \* which input warps are coadded (their masks)
    altMaskList,    \* per epoch: "None", or plane name -> pixels to set
    coadd,          \* coaddExposure's masked image: pixel -> [image, variance, mask]
    nImage,         \* the exposure-count image: pixel -> count
    failed,         \* indices (in tiles) of the tiles whose stacking raised
    pc              \* position in assemble

VARIABLES
    \* ---- AssembleCoaddConfig.validate ----
    configIn,       \* the configuration as it was given
    config,         \* the configuration object (validate assigns to it)
    vpc             \* "loaded" | "valid" | "error" | "running"

VARIABLES
    \* ---- AssembleCoaddTask.prepareInputs ----
    refList,          \* the argument: what each data reference holds
    refIdx,           \* index of the next tempExpRef of the for loop
    tempExpRefList,   \* the three lists built, as indices into refList,
    weightList,       \*   weights
    imageScalerList,  \*   and scalers (named by the index they were made for)
    ppc               \* "loop" | "returned" | "aborted"

VARIABLES
    \* ---- AssembleCoaddTask.run, after assemble ----
    doInterp,       \* config.doInterp
    varBefore,      \* the coadd's variance plane as assemble and interpImage leave it
    varArray,       \* the coadd's variance plane
    rpc             \* "start" | "assembled" | "returned" | "returnedNone"

VARIABLES
    \* ---- SafeClipAssembleCoaddTask.detectClip and assemble ----
    nPixel,            \* footprint.getArea() of the candidate region
    warpProfile,       \* per warp, how many pixels of the region are bad / detected
    warpI,             \* index of the next warp of detectClip's first loop
    ignoreArr,         \* ignoreArr[:, j] for the region
    overlapDetArr,     \* overlapDetArr[:, j] for the region
    artifactSpanSets,  \* per warp, the pixels of its CLIPPED overlay
    clipIndices,       \* per region kept, the warps it is clipped in
    clipCoadd,         \* the coadd the final assemble returns
    cpc                \* "scan" | "classified" | "big" | "returned"

VARIABLES
    \* ---- CompareWarpAssembleCoaddTask.findArtifacts ----
    cwConfig,               \* the thresholds of CompareWarpAssembleCoaddConfig
    warpDiffs,              \* per warp, what its difference with the template shows
    templateFootprints,     \* positive footprints detected on the template, or None
    cwI,                    \* index of the next warp of the loop under way
    epochCountImage,        \* per pixel, in how many warps it is in a candidate
    cwNImage,               \* findArtifacts' nImage: good warps per pixel
    spanSetArtifactList,    \* per warp, its artifact candidates (SpanSets)
    spanSetNoDataMaskList,  \* per warp, the pixels without data
    cwAltMasks,             \* altMasks, the list returned
    cwpc                    \* "count" | "filter" | "returned"

VARIABLES
    \* ---- DcrAssembleCoaddTask.assemble ----
    dcrConfig,          \* maxNumIter, minNumIter, useConvergence
    modelIter,          \* modelIter of the tile under way
    convergenceMetric,  \* convergenceMetric
    convergenceCheck,   \* convergenceCheck
    convergenceList,    \* convergenceList
    dcrModels,          \* per tile, the iteration that last wrote the sub-band models
    dcrCalls,           \* the calls of dcrAssembleSubregion made for the tile under way
    dcrRaised,          \* the values of modelIter at which an iteration of it raised
    dpc                 \* "for" | "while" | "fill" | "returned" | "raised"

VARIABLES
    \* ---- DcrAssembleCoaddTask.clampModel, at one pixel ----
    oldModel,           \* oldModel: image, variance, mask
    residual,           \* residual as passed in
    newModel,           \* the masked image returned
    kpc                 \* "call" | "returned"

VARIABLES
    \* ---- DcrAssembleCoaddTask.regularizeModel, at one pixel ----
    dcrSubModelOut,     \* the images of the sub-band models, modified in place
    modelsBefore,       \* the images of the sub-band models at the call
    templateImage,      \* templateImage
    excess,             \* excess
    noiseLevel,         \* noiseLevel
    clipsMade,          \* per model, which of "high" and "low" clipped it
    regI,               \* index of the model the for loop is at
    gpc                 \* "call" | "loop" | "returned"

VARIABLES
    \* ---- dcrAssembleSubregion: the gain and conditionDcrModel, at one pixel ----
    gainIn,             \* doWeightGain, the two convergence metrics, the old and new pixel
    gain,               \* gain
    written,            \* the pixel assigned to the model
    wpc                 \* "call" | "written"

VARIABLES
    exposures,         \* calculateConvergence: per warp, the pixels of the tile: image, matched template, significance, mask
    metric,            \* the running sum of singleMetric*expWeight
    weight,            \* the running sum of expWeight
    metricList,        \* the singleMetric of each warp already visited
    convergence,       \* what calculateConvergence returned
    qpc                \* "idle", "loop", "returned"

VARIABLES
    coaddExposure,     \* dcrDivideCoadd: the template coadd, pixel -> [image, variance, mask]
    dcrNumSubfilters,  \* the number of sub-band models asked for
    subBandImages,     \* the list dcrDivideCoadd returned
    hpc                \* "idle", "call", "returned"

VARIABLES
    shiftConfig,       \* buildMatchedTemplate: the fields of self.config
    shiftModels,       \* the sub-band models passed in, one value each
    matchedTemplate,   \* what the call came to: [raised, terms]
    mpc                \* "idle", "call", "done"

VARIABLES
    stripIn,           \* the DCR solver on a row of pixels: [exposure, bufferSize, initial]
    subModels,         \* the sub-band models: per sub-band, pixel -> image value
    subModelsBefore,   \* the models before the last call of dcrAssembleSubregion
    nSolved            \* the tiles solved so far, in the order of _subBBoxIter

VARIABLES
    selectDataList,    \* BestSeeingWcsSelectImagesTask.runDataRef: the images, [psfSize, intersects]
    selectConfig,      \* nImagesMax, maxPsfFwhm, minPsfFwhm (<< >> for None)
    psfSizes,          \* the PSF sizes of the images kept by the loop
    bestDataRefList,   \* dataRefList: the images kept by the loop, as indices of selectDataList
    filteredDataRefList,   \* the list returned
    selI,              \* the image the loop is at
    ipc                \* "idle", "call", "loop", "returned", "RuntimeError", "IndexError"

tileVars == <<bbox, subregionSize, rowShift, colShift, gen, tiles>>
asmVars == <<strategy, scene, altMaskList, coadd, nImage, failed, pc>>
cfgVars == <<configIn, config, vpc>>
prepVars == <<refList, refIdx, tempExpRefList, weightList, imageScalerList, ppc>>
runVars == <<doInterp, varBefore, varArray, rpc>>
cwVars == <<cwConfig, warpDiffs, templateFootprints, cwI, epochCountImage, cwNImage,
            spanSetArtifactList, spanSetNoDataMaskList, cwAltMasks, cwpc>>
dcrVars == <<dcrConfig, modelIter, convergenceMetric, convergenceCheck, convergenceList,
             dcrModels, dcrCalls, dcrRaised, dpc>>
clampVars == <<oldModel, residual, newModel, kpc>>
regVars == <<dcrSubModelOut, modelsBefore, templateImage, excess, noiseLevel, clipsMade,
             regI, gpc>>
gainVars == <<gainIn, gain, written, wpc>>
convVars == <<exposures, metric, weight, metricList, convergence, qpc>>
divVars == <<coaddExposure, dcrNumSubfilters, subBandImages, hpc>>
shiftVars == <<shiftConfig, shiftModels, matchedTemplate, mpc>>
stripVars == <<stripIn, subModels, subModelsBefore, nSolved>>
selectVars == <<selectDataList, selectConfig, psfSizes, bestDataRefList, filteredDataRefList, selI, ipc>>
clipVars == <<nPixel, warpProfile, warpI, ignoreArr, overlapDetArr, artifactSpanSets,
              clipIndices, clipCoadd, cpc>>

vars == <<tileVars, asmVars, cfgVars, prepVars, runVars, clipVars, cwVars, dcrVars, clampVars, regVars,
          gainVars, convVars, divVars, shiftVars, stripVars, selectVars>>

\* the groups a part of the program leaves alone
exceptTile == <<asmVars, cfgVars, prepVars, runVars, clipVars, cwVars, dcrVars, clampVars, regVars, gainVars,
    convVars,
    divVars,
    shiftVars,
    stripVars,
    selectVars>>
exceptAsm == <<cfgVars, prepVars, runVars, clipVars, cwVars, dcrVars, clampVars, regVars, gainVars,
    convVars,
    divVars,
    shiftVars,
    stripVars,
    selectVars>>
exceptCfg == <<tileVars, asmVars, prepVars, runVars, clipVars, cwVars, dcrVars, clampVars, regVars, gainVars,
    convVars,
    divVars,
    shiftVars,
    stripVars,
    selectVars>>
exceptPrep == <<tileVars, asmVars, cfgVars, runVars, clipVars, cwVars, dcrVars, clampVars, regVars, gainVars,
    convVars,
    divVars,
    shiftVars,
    stripVars,
    selectVars>>
exceptClip == <<tileVars, asmVars, cfgVars, prepVars, runVars, cwVars, dcrVars, clampVars, regVars, gainVars,
    convVars,
    divVars,
    shiftVars,
    stripVars,
    selectVars>>
exceptCw == <<tileVars, asmVars, cfgVars, prepVars, runVars, clipVars, dcrVars, clampVars, regVars, gainVars,
    convVars,
    divVars,
    shiftVars,
    stripVars,
    selectVars>>
exceptDcr == <<asmVars, cfgVars, prepVars, runVars, clipVars, cwVars, clampVars, regVars, gainVars,
    convVars,
    divVars,
    shiftVars,
    stripVars,
    selectVars>>
exceptClamp == <<tileVars, asmVars, cfgVars, prepVars, runVars, clipVars, cwVars, dcrVars, regVars, gainVars,
    convVars,
    divVars,
    shiftVars,
    stripVars,
    selectVars>>
exceptReg == <<tileVars, asmVars, cfgVars, prepVars, runVars, clipVars, cwVars, dcrVars,
              clampVars, gainVars,
    convVars,
    divVars,
    shiftVars,
    stripVars,
    selectVars>>
exceptGain == <<tileVars, asmVars, cfgVars, prepVars, runVars, clipVars, cwVars, dcrVars,
               clampVars, regVars,
    convVars,
    divVars,
    shiftVars,
    stripVars,
    selectVars>>
exceptConv == <<tileVars, asmVars, cfgVars, prepVars, runVars, clipVars,
    cwVars, dcrVars, clampVars, regVars, gainVars,
    divVars,
    shiftVars,
    stripVars,
    selectVars>>
exceptDiv == <<tileVars, asmVars, cfgVars, prepVars, runVars, clipVars,
    cwVars, dcrVars, clampVars, regVars, gainVars, convVars,
    shiftVars,
    stripVars,
    selectVars>>
exceptShift == <<tileVars, asmVars, cfgVars, prepVars, runVars, clipVars,
    cwVars, dcrVars, clampVars, regVars, gainVars, convVars,
    divVars,
    stripVars,
    selectVars>>
exceptStrip == <<tileVars, asmVars, cfgVars, prepVars, runVars, clipVars,
    cwVars, dcrVars, clampVars, regVars, gainVars, convVars,
    divVars, shiftVars,
    selectVars>>
exceptSelect == <<tileVars, asmVars, cfgVars, prepVars, runVars, clipVars,
    cwVars, dcrVars, clampVars, regVars, gainVars, convVars,
    divVars, shiftVars, stripVars>>
exceptRun == <<tileVars, asmVars, cfgVars, prepVars, clipVars, cwVars, dcrVars, clampVars, regVars, gainVars,
    convVars,
    divVars,
    shiftVars,
    stripVars,
    selectVars>>

----------------------------------------------------------------------------
(* Bounds of the model *)

\* largest patch width and height (tiling alone)
MaxDim == 4
\* largest subregionSize component (tiling alone)
MaxSub == 3
\* largest patch width and height when warps are stacked
MaxPatch == 2
\* largest subregionSize component when warps are stacked
MaxTile == 2
\* number of input warps
NEpochs == 2
\* most tiles whose stacking raises in one assembly
MaxFail == 2
\* most data references handed to prepareInputs
MaxRefs == 3
\* pixels of the coadd whose variance run post-processes
MaxVarPix == 2
\* most warps handed to Safe-Clip
MaxClipEpochs == 4
\* area of the larger candidate region of Safe-Clip
MaxArea == 8
\* most warps handed to Compare-Warp
MaxCwEpochs == 10
\* most tiles of a DCR assembly
MaxDcrTiles == 2
\* largest maxNumIter and minNumIter of a DCR assembly
MaxDcrIter == 1
\* largest magnitude of a pixel of a DCR sub-band model
MaxModel == 2
\* largest dcrNumSubfilters
MaxSubfilters == 3
\* most images in a selectDataList, and the largest nImagesMax
MaxImages == 3
\* largest PSF determinant radius of an image, in pixels
MaxPsf == 3

----------------------------------------------------------------------------
(* afwGeom.Box2I: integer boxes, min corner and dimensions.  An empty box  *)
(* has dimensions (0, 0).                                                  *)

Min2(a, b) == IF a < b THEN a ELSE b
Max2(a, b) == IF a > b THEN a ELSE b

EmptyBox == [x |-> 0, y |-> 0, w |-> 0, h |-> 0]

\* Box2I(minimum, dimensions): a non-positive dimension gives the empty box
Box2I(x, y, w, h) ==
    IF w <= 0 \/ h <= 0 THEN EmptyBox ELSE [x |-> x, y |-> y, w |-> w, h |-> h]

isEmpty(b) == b.w = 0 \/ b.h = 0

\* Box2I.clip(other): the intersection of the two boxes
clip(b, other) ==
    IF isEmpty(b) \/ isEmpty(other) THEN EmptyBox
    ELSE LET nx == Max2(b.x, other.x)
             ny == Max2(b.y, other.y)
             mx == Min2(b.x + b.w - 1, other.x + other.w - 1)
             my == Min2(b.y + b.h - 1, other.y + other.h - 1)
         IN  Box2I(nx, ny, mx - nx + 1, my - ny + 1)

\* the pixels of a box
Pixels(b) ==
    IF isEmpty(b) THEN {}
    ELSE (b.x .. (b.x + b.w - 1)) \X (b.y .. (b.y + b.h - 1))

----------------------------------------------------------------------------
(* AssembleCoaddTask._subBBoxIter                                          *)

\* a mutant of IterRaises: the empty box is not rejected
IterRaisesSizeOnly(b, size) == size[1] < 1 \/ size[2] < 1

\* the guards at the head of the generator: either raises RuntimeError
IterRaises(b, size) == isEmpty(b) \/ size[1] < 1 \/ size[2] < 1

\* a mutant of SubBBox: the box is not clipped to the patch
SubBBoxUnclipped(b, size, cs, rs) == Box2I(b.x + cs, b.y + rs, size[1], size[2])

\* the sub-box built at shifts (cs, rs): Box2I(bbox.getMin() + shift, size), clipped
SubBBox(b, size, cs, rs) == clip(Box2I(b.x + cs, b.y + rs, size[1], size[2]), b)

\* the generator runs to its first yield; it raises instead when a guard
\* fails, and ends at once when range(0, height) or range(0, width) is empty
IterStart ==
    /\ gen = "start"
    /\ IF IterRaises(bbox, subregionSize)
       THEN /\ gen' = "raised"
            /\ UNCHANGED <<rowShift, colShift, tiles>>
       ELSE IF bbox.h <= 0 \/ bbox.w <= 0
       THEN /\ gen' = "exhausted"
            /\ UNCHANGED <<rowShift, colShift, tiles>>
       ELSE LET sub == SubBBox(bbox, subregionSize, 0, 0)
            IN  IF isEmpty(sub)
                THEN /\ gen' = "raised"
                     /\ UNCHANGED <<rowShift, colShift, tiles>>
                ELSE /\ gen' = "yielded"
                     /\ rowShift' = 0
                     /\ colShift' = 0
                     /\ tiles' = Append(tiles, sub)
    /\ UNCHANGED <<bbox, subregionSize>>

\* the generator is resumed: the ranges advance, and it yields, ends or raises
IterResume ==
    /\ gen = "yielded"
    /\ LET nc == colShift + subregionSize[1]
           cs == IF nc < bbox.w THEN nc ELSE 0
           rs == IF nc < bbox.w THEN rowShift ELSE rowShift + subregionSize[2]
       IN  IF rs >= bbox.h
           THEN /\ gen' = "exhausted"
                /\ UNCHANGED <<rowShift, colShift, tiles>>
           ELSE LET sub == SubBBox(bbox, subregionSize, cs, rs)
                IN  IF isEmpty(sub)
                    THEN /\ gen' = "raised"
                         /\ UNCHANGED <<rowShift, colShift, tiles>>
                    ELSE /\ gen' = "yielded"
                         /\ rowShift' = rs
                         /\ colShift' = cs
                         /\ tiles' = Append(tiles, sub)
    /\ UNCHANGED <<bbox, subregionSize>>

----------------------------------------------------------------------------
(* Configuration of the three tasks, as their setDefaults leave it         *)

Epochs == 1 .. NEpochs

\* config.badMaskPlanes: getBadPixelMask() is the bit mask of these planes
badMaskPlanes(st) ==
    IF st = "compareWarp" THEN {"NO_DATA", "BAD", "SAT"}
    ELSE {"NO_DATA", "BAD", "SAT", "EDGE"}

\* config.removeMaskPlanes
removeMaskPlanes(st) ==
    IF st = "compareWarp" THEN {"NOT_DEBLENDED", "EDGE"} ELSE {"NOT_DEBLENDED"}

\* config.doUsePsfMatchedPolygons
doUsePsfMatchedPolygons(st) == st = "compareWarp"

\* a mutant of AndMask: CLIPPED is never added to the bad planes
AndMaskBadOnly(st) == badMaskPlanes(st)

\* the mask the stack ignores (statsCtrl.getAndMask()): the base task passes
\* mask=None, so prepareStats takes getBadPixelMask(); Safe-Clip and
\* Compare-Warp pass badMaskPlanes plus CLIPPED
AndMask(st) ==
    IF st = "base" THEN badMaskPlanes(st) ELSE badMaskPlanes(st) \cup {"CLIPPED"}

\* config.maskPropagationThresholds = {"SAT": 0.1}, as a fraction num/den
PropagationPlanes == {"SAT"}
PropagationNum == 1
PropagationDen == 10

----------------------------------------------------------------------------
(* The inputs of assemble: the warps, their weights and scalings           *)

\* rationals stand for the float pixel values; d = 0 is NaN
Rat(n, d) == [n |-> n, d |-> d]
NaN == Rat(0, 0)
Zero == Rat(0, 1)

\* weightList[e], the weight assemble is given for warp e
warpWeight(e) == e

\* imageScalerList[e]: scaleMaskedImage multiplies the image by the factor
\* and the variance by its square
imageScale(e) == 1 + (e % 2)

\* pixel p of warp e, as tempExpRef.get(tempExpName + "_sub") reads it; the
\* mask depends on the scene coadded
WarpImage(e, p) == e + p[1] + 2 * p[2]
WarpVariance(e, p) == e
WarpMask(sc, b, e, p) ==
    CASE sc = "clean" -> {}
      [] sc = "edge"  -> (IF e = 1 /\ p[1] = b.x THEN {"EDGE"} ELSE {})
                         \cup (IF e = 2 /\ p[2] = b.y
                               THEN {"NOT_DEBLENDED", "DETECTED"} ELSE {})
      [] sc = "bad"   -> (IF p = <<b.x + b.w - 1, b.y + b.h - 1>> THEN {"BAD"} ELSE {})
                         \cup (IF e = 1 /\ p[2] = b.y THEN {"BAD", "DETECTED"} ELSE {})
      [] sc = "sat"   -> IF e = NEpochs /\ p[2] = b.y + b.h - 1 THEN {"SAT"} ELSE {}

Scenes == {"clean", "edge", "bad", "sat"}

\* an entry of altMaskList: None, or a dict plane name -> pixels of its SpanSets
NoAltMask == [isNone |-> TRUE, spans |-> << >>]
AltMask(f) == [isNone |-> FALSE, spans |-> f]

\* the regions the overlays are made of, placed relative to the patch
RegionRow(b) == { p \in Pixels(b) : p[2] = b.y /\ p[1] <= b.x + 1 }
RegionCol(b) == { p \in Pixels(b) : p[1] = b.x }
RegionLast(b) == { p \in Pixels(b) : p[2] = b.y + b.h - 1 }

\* the altMaskList each strategy may hand to AssembleCoaddTask.assemble:
\* none (base), detectClip's clipSpans (Safe-Clip), findArtifacts' altMasks
\* (Compare-Warp)
AltMaskLists(st, b) ==
    CASE st = "base" -> { [e \in Epochs |-> NoAltMask] }
      [] st = "safeClip" ->
           { [e \in Epochs |-> AltMask([CLIPPED |-> {}])],
             [e \in Epochs |-> AltMask([CLIPPED |-> IF e = 1 THEN RegionRow(b) ELSE {}])],
             [e \in Epochs |-> AltMask([CLIPPED |-> IF e <= 2 THEN RegionRow(b) ELSE {}])] }
      [] st = "compareWarp" ->
           { [e \in Epochs |-> AltMask([CLIPPED |-> {}, NO_DATA |-> {}, EDGE |-> {}])],
             [e \in Epochs |-> AltMask([CLIPPED |-> IF e = 1 THEN RegionRow(b) ELSE {},
                                        NO_DATA |-> {},
                                        EDGE    |-> IF e = 1 THEN RegionCol(b) ELSE {}])],
             [e \in Epochs |-> AltMask([CLIPPED |-> {},
                                        NO_DATA |-> IF e = 2 THEN RegionRow(b) ELSE {},
                                        EDGE    |-> IF e = 2 THEN RegionLast(b) ELSE {}])] }

----------------------------------------------------------------------------
(* AssembleCoaddTask.assembleSubregion                                     *)

RECURSIVE SumOver(_, _)
SumOver(f, S) ==
    IF S = {} THEN 0
    ELSE LET e == CHOOSE x \in S : TRUE IN f[e] + SumOver(f, S \ {e})

\* a mutant of applyAltMaskPlanes: the planes are set and nothing is cleared
applyAltMaskPlanesOrOnly(st, mask, altMaskSpans, box) ==
    [p \in Pixels(box) |->
        mask[p] \cup { plane \in DOMAIN altMaskSpans : p \in altMaskSpans[plane] }]

\* applyAltMaskPlanes(mask, altMaskSpans) on a mask whose bounding box is box:
\* with doUsePsfMatchedPolygons the bad planes are first cleared inside the
\* NO_DATA spans; then every plane of the dict is set on its spans, each
\* clipped to the mask's box
applyAltMaskPlanes(st, mask, altMaskSpans, box) ==
    LET clipped(plane) == altMaskSpans[plane] \cap Pixels(box)
        clear == IF /\ doUsePsfMatchedPolygons(st)
                    /\ "NO_DATA" \in DOMAIN altMaskSpans
                    /\ "NO_DATA" \in badMaskPlanes(st)
                 THEN clipped("NO_DATA") ELSE {}
    IN  [p \in Pixels(box) |->
            (IF p \in clear THEN mask[p] \ badMaskPlanes(st) ELSE mask[p])
            \cup { plane \in DOMAIN altMaskSpans : p \in clipped(plane) }]

\* the mask of warp e over box once its alternate mask is applied
\* (assembleSubregion, the head of the loop over the warps)
MaskWithAlt(e, box) ==
    LET mask == [p \in Pixels(box) |-> WarpMask(scene, bbox, e, p)]
    IN  IF altMaskList[e].isNone THEN mask
        ELSE applyAltMaskPlanes(strategy, mask, altMaskList[e].spans, box)

\* a mutant of MaskedImage: the planes of removeMaskPlanes are cleared
\* before the alternate mask is applied
MaskedImageRemoveFirst(e, box) ==
    LET read == [p \in Pixels(box) |-> WarpMask(scene, bbox, e, p) \ removeMaskPlanes(strategy)]
        mask == IF altMaskList[e].isNone THEN read
                ELSE applyAltMaskPlanes(strategy, read, altMaskList[e].spans, box)
    IN  [p \in Pixels(box) |->
            [image    |-> imageScale(e) * WarpImage(e, p),
             variance |-> imageScale(e) * imageScale(e) * WarpVariance(e, p),
             mask     |-> mask[p]]]

\* the masked image of warp e appended to maskedImageList: alternate mask
\* applied, scaled, and the planes of removeMaskPlanes cleared
MaskedImage(e, box) ==
    LET mask == MaskWithAlt(e, box)
    IN  [p \in Pixels(box) |->
            [image    |-> imageScale(e) * WarpImage(e, p),
             variance |-> imageScale(e) * imageScale(e) * WarpVariance(e, p),
             mask     |-> mask[p] \ removeMaskPlanes(strategy)]]

\* subNImage: one is added per warp for each pixel the exclude mask does
\* not exclude (counted before removeMaskPlanes is applied)
SubNImage(box) ==
    [p \in Pixels(box) |->
        Cardinality({ e \in Epochs : MaskWithAlt(e, box)[p] \cap AndMask(strategy) = {} })]

\* maskMap of assembleSubregion: planes rejected for other than EDGE, NO_DATA
\* or CLIPPED give REJECTED, EDGE gives SENSOR_EDGE, CLIPPED gives CLIPPED
toReject(andMask) == andMask \ {"NO_DATA", "EDGE", "CLIPPED"}

\* afwMath.statisticsStack at one pixel, statistic MEAN, weighted: px[e] is
\* the pixel of warp e.  Warps whose mask meets andMask do not contribute.
StackPixel(px, andMask) ==
    LET warps == DOMAIN px
        good == { e \in warps : px[e].mask \cap andMask = {} }
        w    == [e \in warps |-> warpWeight(e)]
        wv   == [e \in warps |-> warpWeight(e) * px[e].image]
        wwv  == [e \in warps |-> warpWeight(e) * warpWeight(e) * px[e].variance]
        sumw == SumOver(w, good)
        rejW(plane) == SumOver(w, { e \in warps \ good : plane \in px[e].mask })
        orMask == UNION { px[e].mask : e \in good }
        propagated == { plane \in PropagationPlanes :
                           rejW(plane) * PropagationDen > PropagationNum * SumOver(w, warps) }
        any(planes) == \E e \in warps : px[e].mask \cap planes # {}
        mapped == IF good = warps THEN {}
                  ELSE (IF any(toReject(andMask)) THEN {"REJECTED"} ELSE {})
                       \cup (IF any({"EDGE"}) THEN {"SENSOR_EDGE"} ELSE {})
                       \cup (IF any({"CLIPPED"}) THEN {"CLIPPED"} ELSE {})
    IN  IF good = {}
        THEN [image |-> NaN, variance |-> NaN, mask |-> {"NO_DATA"} \cup mapped]
        ELSE [image    |-> Rat(SumOver(wv, good), sumw),
              variance |-> Rat(SumOver(wwv, good), sumw * sumw),
              mask     |-> orMask \cup propagated \cup mapped]

\* coaddSubregion: the stack of the warps over box
StackRegion(box) ==
    [p \in Pixels(box) |->
        StackPixel([e \in Epochs |-> MaskedImage(e, box)[p]], AndMask(strategy))]

\* a mutant of assign: the sub-image is written at the patch origin
assignAtOrigin(target, sub, box) ==
    [p \in DOMAIN target |->
        LET q == <<p[1] - bbox.x + box.x, p[2] - bbox.y + box.y>>
        IN  IF q \in DOMAIN sub THEN sub[q] ELSE target[p]]

\* image.assign(sub, box): the pixels of box are overwritten
assign(target, sub, box) ==
    [p \in DOMAIN target |-> IF p \in Pixels(box) THEN sub[p] ELSE target[p]]

----------------------------------------------------------------------------
(* AssembleCoaddTask.assemble: the loop over the sub-boxes, then the       *)
(* post-processing of the coadd mask                                       *)

BlankPixel == [image |-> Zero, variance |-> Zero, mask |-> {}]

\* a mutant of setInexactPsf: CLIPPED is left out of the planes selected
setInexactPsfNoClipped(mi) ==
    [p \in DOMAIN mi |->
        IF mi[p].mask \cap {"SENSOR_EDGE", "REJECTED"} # {}
        THEN [mi[p] EXCEPT !.mask = @ \cup {"INEXACT_PSF"}] ELSE mi[p]]

\* setInexactPsf(mask)
setInexactPsf(mi) ==
    [p \in DOMAIN mi |->
        IF mi[p].mask \cap {"SENSOR_EDGE", "CLIPPED", "REJECTED"} # {}
        THEN [mi[p] EXCEPT !.mask = @ \cup {"INEXACT_PSF"}] ELSE mi[p]]

\* coaddUtils.setCoaddEdgeBits(mask, variance): NO_DATA is set wherever the
\* variance (the weight map) is zero
setCoaddEdgeBits(mi) ==
    [p \in DOMAIN mi |->
        IF mi[p].variance.n = 0 /\ mi[p].variance.d # 0
        THEN [mi[p] EXCEPT !.mask = @ \cup {"NO_DATA"}] ELSE mi[p]]

\* CompareWarpAssembleCoaddTask.applyAltEdgeMask(mask, altMaskList)
applyAltEdgeMask(mi, altMasks) ==
    LET edge == UNION { altMasks[e].spans["EDGE"] :
                          e \in { v \in Epochs : "EDGE" \in DOMAIN altMasks[v].spans } }
    IN  [p \in DOMAIN mi |->
            IF p \in edge
            THEN [mi[p] EXCEPT !.mask = @ \cup {"SENSOR_EDGE", "INEXACT_PSF"}] ELSE mi[p]]

\* where the for statement goes once the generator has answered
AfterNext ==
    pc' = CASE gen' = "yielded"   -> "body"
            [] gen' = "exhausted" -> "post"
            [] gen' = "raised"    -> "raised"

\* the for statement asks the generator for its first sub-box; an exception
\* raised by the generator is outside the try block and leaves assemble
ForFirst ==
    /\ pc = "for"
    /\ IterStart
    /\ AfterNext
    /\ UNCHANGED <<strategy, scene, altMaskList, coadd, nImage, failed>>

\* the for statement asks the generator for the next sub-box
ForNext ==
    /\ pc = "for"
    /\ IterResume
    /\ AfterNext
    /\ UNCHANGED <<strategy, scene, altMaskList, coadd, nImage, failed>>

\* assembleSubregion stacks the current sub-box and assigns it to the coadd
AssembleSubregionOk ==
    /\ pc = "body"
    /\ LET box == tiles[Len(tiles)]
       IN  /\ coadd' = assign(coadd, StackRegion(box), box)
           /\ nImage' = assign(nImage, SubNImage(box), box)
    /\ pc' = "for"
    /\ UNCHANGED <<strategy, scene, altMaskList, failed>>
    /\ UNCHANGED tileVars

\* a mutant of AssembleSubregionRaise: the exception leaves assemble
AssembleSubregionRaisePropagates ==
    /\ pc = "body"
    /\ Cardinality(failed) < MaxFail
    /\ failed' = failed \cup {Len(tiles)}
    /\ pc' = "raised"
    /\ UNCHANGED <<strategy, scene, altMaskList, coadd, nImage>>
    /\ UNCHANGED tileVars

\* assembleSubregion raises before the assignment (reading, scaling or
\* stacking fails): the except clause logs it and the loop goes on
AssembleSubregionRaise ==
    /\ pc = "body"
    /\ Cardinality(failed) < MaxFail
    /\ failed' = failed \cup {Len(tiles)}
    /\ pc' = "for"
    /\ UNCHANGED <<strategy, scene, altMaskList, coadd, nImage>>
    /\ UNCHANGED tileVars

\* after the loop: setInexactPsf, setCoaddEdgeBits, and the return of
\* AssembleCoaddTask.assemble (to Compare-Warp's assemble when it is the caller)
AssembleReturn ==
    /\ pc = "post"
    /\ coadd' = setCoaddEdgeBits(setInexactPsf(coadd))
    /\ pc' = IF strategy = "compareWarp" THEN "altEdge" ELSE "returned"
    /\ UNCHANGED <<strategy, scene, altMaskList, nImage, failed>>
    /\ UNCHANGED tileVars

\* CompareWarpAssembleCoaddTask.assemble: applyAltEdgeMask, then return
CompareWarpReturn ==
    /\ pc = "altEdge"
    /\ coadd' = applyAltEdgeMask(coadd, altMaskList)
    /\ pc' = "returned"
    /\ UNCHANGED <<strategy, scene, altMaskList, nImage, failed>>
    /\ UNCHANGED tileVars

----------------------------------------------------------------------------
(* AssembleCoaddConfig.validate                                            *)

\* the members of afwMath.Property
Property ==
    {"NOTHING", "ERROR", "NPOINT", "MEAN", "STDEV", "VARIANCE", "MEDIAN", "IQRANGE",
     "MEANCLIP", "STDEVCLIP", "VARIANCECLIP", "MIN", "MAX", "SUM", "MEANSQUARE",
     "ORMASK", "NCLIPPED", "NMASKED"}

\* names every Python class answers hasattr for without their being statistics
ClassAttributes == {"__doc__"}

\* hasattr(afwMath.Property, name)
hasattr(name) == name \in Property \cup ClassAttributes

unstackableStats == {"NOTHING", "ERROR", "ORMASK"}

\* the statistics validate accepts together with doInterp
interpStats == {"MEAN", "MEDIAN", "MEANCLIP", "VARIANCE", "VARIANCECLIP"}

\* the assignments validate makes before its checks: doPsfMatch sets
\* warpType, doSigmaClip replaces any other statistic by MEANCLIP
Deprecations(cfg) ==
    [cfg EXCEPT
        !.warpType  = IF cfg.doPsfMatch THEN "psfMatched" ELSE @,
        !.statistic = IF cfg.doSigmaClip /\ @ # "MEANCLIP" THEN "MEANCLIP" ELSE @]

\* a mutant of ValidateRaises: the unstackable statistics are not refused
ValidateRaisesKnownOnly(cfg) ==
    \/ cfg.doInterp /\ cfg.statistic \notin interpStats
    \/ ~hasattr(cfg.statistic)

\* the two checks of validate: either raises ValueError
ValidateRaises(cfg) ==
    \/ cfg.doInterp /\ cfg.statistic \notin interpStats
    \/ ~hasattr(cfg.statistic) \/ cfg.statistic \in unstackableStats

\* config.validate()
Validate ==
    /\ vpc = "loaded"
    /\ config' = Deprecations(config)
    /\ vpc' = IF ValidateRaises(Deprecations(config)) THEN "error" ELSE "valid"
    /\ UNCHANGED configIn

\* the task runs (and tiles are processed) with a validated configuration only
RunValidated ==
    /\ vpc = "valid"
    /\ vpc' = "running"
    /\ UNCHANGED <<configIn, config>>

----------------------------------------------------------------------------
(* AssembleCoaddTask.prepareInputs                                         *)

\* what a data reference of refList can hold
RefKinds ==
    {"missing",      \* datasetExists is False
     "scaleFails",   \* imageScaler.scaleMaskedImage raises
     "var1",         \* mean clipped variance 1.0
     "var2",         \* mean clipped variance 2.0
     "var0",         \* mean clipped variance 0.0
     "varNaN",       \* mean clipped variance NaN
     "varInf"}       \* mean clipped variance +inf

\* 1.0 / float(meanVar) for a meanVar that is not zero (a rational; NaN has d = 0)
Weight(kind) ==
    CASE kind = "var1"   -> Rat(1, 1)
      [] kind = "var2"   -> Rat(1, 2)
      [] kind = "varInf" -> Rat(0, 1)
      [] kind = "varNaN" -> NaN

\* numpy.isfinite(weight)
isfinite(w) == w.d # 0

\* one pass of the for loop over refList
PrepareRef ==
    /\ ppc = "loop"
    /\ refIdx <= Len(refList)
    /\ LET kind == refList[refIdx]
       IN  CASE kind \in {"missing", "scaleFails"} ->
                  \* continue
                  /\ ppc' = "loop"
                  /\ refIdx' = refIdx + 1
                  /\ UNCHANGED <<tempExpRefList, weightList, imageScalerList>>
             [] kind = "var0" ->
                  \* 1.0 / float(meanVar) raises ZeroDivisionError, which no
                  \* handler catches: the exception leaves prepareInputs
                  /\ ppc' = "aborted"
                  /\ UNCHANGED <<refIdx, tempExpRefList, weightList, imageScalerList>>
             [] OTHER ->
                  IF ~isfinite(Weight(kind))
                  THEN /\ ppc' = "loop"
                       /\ refIdx' = refIdx + 1
                       /\ UNCHANGED <<tempExpRefList, weightList, imageScalerList>>
                  ELSE /\ ppc' = "loop"
                       /\ refIdx' = refIdx + 1
                       /\ tempExpRefList' = Append(tempExpRefList, refIdx)
                       /\ weightList' = Append(weightList, Weight(kind))
                       /\ imageScalerList' = Append(imageScalerList, refIdx)
    /\ UNCHANGED refList

\* the loop is over: the Struct of the three lists is returned
PrepareReturn ==
    /\ ppc = "loop"
    /\ refIdx > Len(refList)
    /\ ppc' = "returned"
    /\ UNCHANGED <<refList, refIdx, tempExpRefList, weightList, imageScalerList>>

----------------------------------------------------------------------------
(* AssembleCoaddTask.run: the variance of the coadd after interpolation    *)

\* float values of the variance plane: finite integers, +-inf (d = 0) and NaN
Floats == { Rat(-1, 1), Rat(0, 1), Rat(1, 1), Rat(2, 1), Rat(1, 0), Rat(-1, 0), NaN }
PlusInf == Rat(1, 0)

\* v > 0 as numpy compares floats: False for NaN
GreaterThanZero(v) == v.n > 0

\* a mutant of PositiveOrInf: zero passes the test (>= for >)
NonNegativeOrInf(v) == IF v.n >= 0 /\ v # NaN THEN v ELSE PlusInf

\* numpy.where(varArray > 0, varArray, numpy.inf) at one pixel
PositiveOrInf(v) == IF GreaterThanZero(v) THEN v ELSE PlusInf

VarPixels == 1 .. MaxVarPix

\* selectExposures or prepareInputs finds nothing to coadd: run returns None
RunNothingToCoadd ==
    /\ rpc = "start"
    /\ rpc' = "returnedNone"
    /\ UNCHANGED <<doInterp, varBefore, varArray>>

\* assemble returns the coadd; with doInterp, interpImage.run has worked on
\* it.  Its variance plane holds any float values at this point.
RunAssemble ==
    /\ rpc = "start"
    /\ varArray' \in [VarPixels -> Floats]
    /\ varBefore' = varArray'
    /\ rpc' = "assembled"
    /\ UNCHANGED doInterp

\* the rest of run: the variance is made positive when doInterp is set, and
\* the coadd is returned (bright object masks and writing leave the variance)
RunFinish ==
    /\ rpc = "assembled"
    /\ varArray' = IF doInterp THEN [i \in VarPixels |-> PositiveOrInf(varArray[i])]
                   ELSE varArray
    /\ rpc' = "returned"
    /\ UNCHANGED <<doInterp, varBefore>>

----------------------------------------------------------------------------
(* SafeClipAssembleCoaddTask: detectClip, detectClipBig, the final stack   *)

\* SafeClipAssembleCoaddConfig
minClipFootOverlap == Rat(60, 100)
minClipFootOverlapSingle == Rat(50, 100)
minClipFootOverlapDouble == Rat(45, 100)
maxClipFootOverlapDouble == Rat(15, 100)
minBigOverlap == 100

\* a > b for fractions with positive denominators
Greater(a, b) == a.n * b.d > b.n * a.d

\* a value stored in a numpy.uint16 array
ToUint16(x) == x % 65536

\* the number of values of a numpy.uint16 cell
Uint16Cells == 65536

maskDetValue == {"DETECTED", "DETECTED_NEGATIVE"}

\* the patch is one row; the candidate region is its first nPixel pixels
clipBBox == Box2I(0, 0, nPixel + 1, 1)
footprint == Pixels(Box2I(0, 0, nPixel, 1))

\* the mask of warp i: the first bad pixels of the region carry BAD, the next
\* det carry DETECTED
tmpExpMask(i) ==
    [p \in Pixels(clipBBox) |->
        IF p[1] < warpProfile[i].bad THEN {"BAD"}
        ELSE IF p[1] < warpProfile[i].bad + warpProfile[i].det THEN {"DETECTED"}
        ELSE {}]

\* countMaskFromFootprint(mask, footprint, bitmask, ignoreMask)
countMaskFromFootprint(mask, foot, bitmask, ignoreMask) ==
    Cardinality({ p \in foot \cap DOMAIN mask :
                     mask[p] \cap bitmask # {} /\ mask[p] \cap ignoreMask = {} })

\* one pass of the first loop of detectClip: the two counts of warp warpI
ScanWarp ==
    /\ cpc = "scan"
    /\ warpI <= Len(warpProfile)
    /\ LET ignoreMask == badMaskPlanes("safeClip")
       IN  /\ ignoreArr' = [ignoreArr EXCEPT ![warpI] =
                 ToUint16(countMaskFromFootprint(tmpExpMask(warpI), footprint, ignoreMask, {}))]
           /\ overlapDetArr' = [overlapDetArr EXCEPT ![warpI] =
                 ToUint16(countMaskFromFootprint(tmpExpMask(warpI), footprint,
                                                 maskDetValue, ignoreMask))]
    /\ warpI' = warpI + 1
    /\ UNCHANGED <<nPixel, warpProfile, artifactSpanSets, clipIndices, clipCoadd, cpc>>

\* the warps of indexList: the ones the second loop does not skip
indexList ==
    { i \in 1 .. Len(warpProfile) :
        ~ \/ ignoreArr[i] > overlapDetArr[i]
          \/ 2 * (nPixel - ignoreArr[i]) <= nPixel
          \/ overlapDetArr[i] = 0 }

\* overlapDet/float(totPixel) for a warp of indexList
overlap(i) == Rat(overlapDetArr[i], nPixel - ignoreArr[i])

\* a mutant of keepIndex: every visit above minClipFootOverlap is clipped
keepIndexAnyVisit(idx) ==
    IF Cardinality(idx) = 1
    THEN { i \in idx : Greater(overlap(i), minClipFootOverlapSingle) }
    ELSE { i \in idx : Greater(overlap(i), minClipFootOverlap) }

\* a mutant of keepIndex: the test for two visits is left out
keepIndexOneVisit(idx) ==
    IF Cardinality(idx) = 1
    THEN { i \in idx : Greater(overlap(i), minClipFootOverlapSingle) }
    ELSE LET clipIndex == { i \in idx : Greater(overlap(i), minClipFootOverlap) }
         IN  IF Cardinality(clipIndex) = 1 THEN clipIndex ELSE {}

\* the warps the region is marked clipped in (empty: keep is False), given
\* the warps of indexList
keepIndex(idx) ==
    IF Cardinality(idx) = 1
    THEN { i \in idx : Greater(overlap(i), minClipFootOverlapSingle) }
    ELSE LET clipIndex == { i \in idx : Greater(overlap(i), minClipFootOverlap) }
             clipIndex2 == { i \in idx : Greater(overlap(i), minClipFootOverlapDouble) }
             clipIndexComp == idx \ clipIndex2
         IN  IF /\ Cardinality(clipIndex2) = 2
                /\ Cardinality(idx) > 3
                /\ \A i \in clipIndexComp : ~Greater(overlap(i), maxClipFootOverlapDouble)
             THEN clipIndex2
             ELSE IF Cardinality(clipIndex) = 1 THEN clipIndex ELSE {}

\* the second loop of detectClip, for the region, and the return
Classify ==
    /\ cpc = "scan"
    /\ warpI > Len(warpProfile)
    /\ LET kept == IF indexList = {} THEN {} ELSE keepIndex(indexList)
       IN  /\ artifactSpanSets' =
                 [i \in 1 .. Len(warpProfile) |->
                     [CLIPPED |-> IF i \in kept THEN footprint ELSE {}]]
           /\ clipIndices' = IF kept = {} THEN << >> ELSE <<kept>>
    /\ cpc' = "classified"
    /\ UNCHANGED <<nPixel, warpProfile, warpI, ignoreArr, overlapDetArr, clipCoadd>>

\* the detection footprint of warp i: its DETECTED pixels (one run)
visitFootprint(i) == { p \in Pixels(clipBBox) : tmpExpMask(i)[p] \cap maskDetValue # {} }

\* a mutant of detectClipBig: an overlap of minBigOverlap pixels is enough
detectClipBigAtLeast ==
    /\ cpc = "classified"
    /\ artifactSpanSets' =
          [i \in 1 .. Len(warpProfile) |->
              LET maskVisitClip ==
                      [p \in Pixels(clipBBox) |->
                          IF \E k \in 1 .. Len(clipIndices) : i \in clipIndices[k] /\ p \in footprint
                          THEN {"CLIPPED"} ELSE {}]
                  foot == visitFootprint(i)
                  big == /\ ~(Cardinality(foot) < minBigOverlap)
                         /\ countMaskFromFootprint(maskVisitClip, foot, {"CLIPPED"},
                                                   badMaskPlanes("safeClip")) >= minBigOverlap
              IN  [CLIPPED |-> artifactSpanSets[i].CLIPPED \cup (IF big THEN foot ELSE {})]]
    /\ cpc' = "big"
    /\ UNCHANGED <<nPixel, warpProfile, warpI, ignoreArr, overlapDetArr, clipIndices, clipCoadd>>

\* detectClipBig: a large detection footprint of a warp that overlaps the
\* regions clipped in that warp is appended to the warp's CLIPPED spans
detectClipBig ==
    /\ cpc = "classified"
    /\ artifactSpanSets' =
          [i \in 1 .. Len(warpProfile) |->
              LET maskVisitClip ==
                      [p \in Pixels(clipBBox) |->
                          IF \E k \in 1 .. Len(clipIndices) : i \in clipIndices[k] /\ p \in footprint
                          THEN {"CLIPPED"} ELSE {}]
                  foot == visitFootprint(i)
                  big == /\ ~(Cardinality(foot) < minBigOverlap)
                         /\ countMaskFromFootprint(maskVisitClip, foot, {"CLIPPED"},
                                                   badMaskPlanes("safeClip")) > minBigOverlap
              IN  [CLIPPED |-> artifactSpanSets[i].CLIPPED \cup (IF big THEN foot ELSE {})]]
    /\ cpc' = "big"
    /\ UNCHANGED <<nPixel, warpProfile, warpI, ignoreArr, overlapDetArr, clipIndices, clipCoadd>>

\* pixel p of warp i as the final stack reads it: the detected pixels hold an
\* outlier
clipWarpImage(i, p) == IF tmpExpMask(i)[p] \cap maskDetValue # {} THEN 10 + i ELSE 1

\* the masked image of warp i in assembleSubregion of the final stack
clipMaskedImage(i) ==
    LET mask == applyAltMaskPlanes("safeClip", tmpExpMask(i), artifactSpanSets[i], clipBBox)
    IN  [p \in Pixels(clipBBox) |->
            [image    |-> imageScale(i) * clipWarpImage(i, p),
             variance |-> imageScale(i) * imageScale(i),
             mask     |-> mask[p] \ removeMaskPlanes("safeClip")]]

\* AssembleCoaddTask.assemble(..., result.clipSpans, mask=badPixelMask), the
\* patch stacked as one sub-box, and the return of Safe-Clip's assemble
clipAssemble ==
    /\ cpc = "big"
    /\ clipCoadd' =
          setCoaddEdgeBits(setInexactPsf(
              [p \in Pixels(clipBBox) |->
                  StackPixel([i \in 1 .. Len(warpProfile) |-> clipMaskedImage(i)[p]],
                             AndMask("safeClip"))]))
    /\ cpc' = "returned"
    /\ UNCHANGED <<nPixel, warpProfile, warpI, ignoreArr, overlapDetArr, artifactSpanSets,
                   clipIndices>>

----------------------------------------------------------------------------
(* CompareWarpAssembleCoaddTask.findArtifacts and filterArtifacts          *)

\* the template is one row of three pixels
cwPixels == 1 .. 3

\* CompareWarpAssembleCoaddConfig.prefilterArtifactsMaskPlanes and Ratio
prefilterArtifactsMaskPlanes == {"NO_DATA", "BAD", "SAT", "SUSPECT"}
prefilterArtifactsRatio == Rat(5, 100)

\* arithmetic on fractions with positive denominators
RatMin(a, b) == IF a.n * b.d <= b.n * a.d THEN a ELSE b
RatFloor(a) == a.n \div a.d

\* sum of the image img over the pixels of span
RECURSIVE SumImage(_, _)
SumImage(img, span) ==
    IF span = {} THEN 0
    ELSE LET x == CHOOSE q \in span : TRUE IN img[x] + SumImage(img, span \ {x})

\* prefilterArtifacts(spanSetList, exp): the candidates with more than
\* prefilterArtifactsRatio of their pixels good
prefilterArtifacts(spanSetList, mask) ==
    { span \in spanSetList :
        Greater(Rat(Cardinality({ x \in span : mask[x] \cap prefilterArtifactsMaskPlanes = {} }),
                    Cardinality(span)),
                prefilterArtifactsRatio) }

\* one pass of the first loop of findArtifacts: the warp difference is read,
\* nImage and epochCountImage are added to and the three lists appended to
cwCountWarp ==
    /\ cwpc = "count"
    /\ cwI <= Len(warpDiffs)
    /\ LET diff == warpDiffs[cwI]
           spanSetList == prefilterArtifacts(diff.footprints, diff.mask)
           slateIm == [x \in cwPixels |-> IF \E span \in spanSetList : x \in span THEN 1 ELSE 0]
       IN  IF diff.isNone
           THEN /\ spanSetArtifactList' = Append(spanSetArtifactList, {})
                /\ spanSetNoDataMaskList' = Append(spanSetNoDataMaskList, cwPixels)
                /\ UNCHANGED <<epochCountImage, cwNImage>>
           ELSE /\ cwNImage' = [x \in cwPixels |->
                                  cwNImage[x] + (IF diff.mask[x] \cap badMaskPlanes("compareWarp") = {}
                                                 THEN 1 ELSE 0)]
                /\ epochCountImage' = [x \in cwPixels |-> epochCountImage[x] + slateIm[x]]
                /\ spanSetArtifactList' = Append(spanSetArtifactList, spanSetList)
                /\ spanSetNoDataMaskList' = Append(spanSetNoDataMaskList, {})
    /\ cwI' = cwI + 1
    /\ UNCHANGED <<cwConfig, warpDiffs, templateFootprints, cwAltMasks, cwpc>>

\* the first loop is over: the second loop starts
cwCountDone ==
    /\ cwpc = "count"
    /\ cwI > Len(warpDiffs)
    /\ cwI' = 1
    /\ cwpc' = "filter"
    /\ UNCHANGED <<cwConfig, warpDiffs, templateFootprints, epochCountImage, cwNImage,
                   spanSetArtifactList, spanSetNoDataMaskList, cwAltMasks>>

\* int(min(maxFractionEpochsLow*N, maxNumEpochs + maxFractionEpochsHigh*N)),
\* N the mean of nImage over the span
effectiveMaxNumEpochs(span) ==
    LET sum == SumImage(cwNImage, span)
        len == Cardinality(span)
        low == cwConfig.maxFractionEpochsLow
        high == cwConfig.maxFractionEpochsHigh
        effMaxNumEpochsLowN == Rat(low.n * sum, low.d * len)
        effMaxNumEpochsHighN == Rat(cwConfig.maxNumEpochs * high.d * len + high.n * sum, high.d * len)
    IN  RatFloor(RatMin(effMaxNumEpochsLowN, effMaxNumEpochsHighN))

\* percentBelowThreshold of a span
percentBelowThreshold(span) ==
    Rat(Cardinality({ x \in span : epochCountImage[x] > 0
                                     /\ epochCountImage[x] <= effectiveMaxNumEpochs(span) }),
        Cardinality(span))

\* some footprint of the list contains the span
isContained(span, footprints) == \E fp \in footprints : span \subseteq fp

\* a mutant of passesThreshold: the fraction may equal spatialThreshold
passesThresholdOrEqual(span) == ~Greater(cwConfig.spatialThreshold, percentBelowThreshold(span))

\* percentBelowThreshold > self.config.spatialThreshold
passesThreshold(span) == Greater(percentBelowThreshold(span), cwConfig.spatialThreshold)

\* a mutant of filterArtifacts: candidates inside a template footprint stay
filterArtifactsNoRescue(spanSetList, footprintsToExclude) ==
    { span \in spanSetList : passesThreshold(span) }

\* filterArtifacts(spanSetList, epochCountImage, nImage, footprintsToExclude)
filterArtifacts(spanSetList, footprintsToExclude) ==
    LET maskSpanSetList == { span \in spanSetList : passesThreshold(span) }
    IN  IF cwConfig.doPreserveContainedBySource /\ ~footprintsToExclude.isNone
        THEN { span \in maskSpanSetList : ~isContained(span, footprintsToExclude.positive) }
        ELSE maskSpanSetList

\* one pass of the second loop of findArtifacts
cwFilterWarp ==
    /\ cwpc = "filter"
    /\ cwI <= Len(warpDiffs)
    /\ spanSetArtifactList' =
          IF spanSetArtifactList[cwI] # {}
          THEN [spanSetArtifactList EXCEPT
                   ![cwI] = filterArtifacts(spanSetArtifactList[cwI], templateFootprints)]
          ELSE spanSetArtifactList
    /\ cwI' = cwI + 1
    /\ UNCHANGED <<cwConfig, warpDiffs, templateFootprints, epochCountImage, cwNImage,
                   spanSetNoDataMaskList, cwAltMasks, cwpc>>

\* the list of alternate masks is built and returned
cwReturn ==
    /\ cwpc = "filter"
    /\ cwI > Len(warpDiffs)
    /\ cwAltMasks' = [i \in 1 .. Len(warpDiffs) |->
                       [CLIPPED |-> UNION spanSetArtifactList[i],
                        NO_DATA |-> spanSetNoDataMaskList[i],
                        EDGE    |-> {}]]
    /\ cwpc' = "returned"
    /\ UNCHANGED <<cwConfig, warpDiffs, templateFootprints, cwI, epochCountImage, cwNImage,
                   spanSetArtifactList, spanSetNoDataMaskList>>

----------------------------------------------------------------------------
(* DcrAssembleCoaddTask.assemble: the loop over the sub-boxes and, for     *)
(* each, the loop of forward-modelling iterations                          *)

\* DcrAssembleCoaddConfig.convergenceThreshold
convergenceThreshold == Rat(1, 1000)

\* the values calculateConvergence may return (numpy floats)
Metrics == {0, 1, 2}

\* (convergenceList[-1] - convergenceMetric)/convergenceMetric in numpy
\* arithmetic: a zero divisor gives inf or NaN (d = 0), not an exception
RelativeChange(last, measured) == Rat(last - measured, measured)

\* the condition of the while statement
WhileCondition ==
    \/ Greater(convergenceCheck, convergenceThreshold)
    \/ modelIter < dcrConfig.minNumIter

\* the for statement takes the next sub-box from _subBBoxIter; for a sub-box
\* the initial convergence is computed and the iteration state reset
dcrForUpdate ==
    IF gen' = "yielded"
    THEN /\ \E measured \in Metrics :
               /\ convergenceMetric' = measured
               /\ convergenceList' = <<measured>>
         /\ modelIter' = 0
         /\ convergenceCheck' = Rat(1, 1)
         /\ dcrModels' = Append(dcrModels, 0)
         /\ dcrCalls' = 0
         /\ dcrRaised' = {}
         /\ dpc' = "while"
    ELSE /\ dpc' = IF gen' = "exhausted" THEN "fill" ELSE "raised"
         /\ UNCHANGED <<modelIter, convergenceMetric, convergenceCheck, convergenceList,
                        dcrModels, dcrCalls, dcrRaised>>

dcrForFirst ==
    /\ dpc = "for"
    /\ IterStart
    /\ dcrForUpdate
    /\ UNCHANGED dcrConfig

dcrForNext ==
    /\ dpc = "for"
    /\ IterResume
    /\ dcrForUpdate
    /\ UNCHANGED dcrConfig

\* the end of the body of the while statement: break once modelIter is
\* above maxNumIter, else count the iteration
dcrEndOfBody ==
    IF modelIter > dcrConfig.maxNumIter
    THEN /\ dpc' = "for"
         /\ UNCHANGED modelIter
    ELSE /\ dpc' = "while"
         /\ modelIter' = modelIter + 1

\* a mutant of dcrIterate: an exception of the iteration leaves assemble
dcrIterateUncaught ==
    /\ dpc = "while"
    /\ WhileCondition
    /\ dcrCalls' = dcrCalls + 1
    /\ dcrRaised' = dcrRaised \cup {modelIter}
    /\ dpc' = "raised"
    /\ UNCHANGED <<dcrConfig, modelIter, convergenceMetric, convergenceCheck, convergenceList,
                   dcrModels>>
    /\ UNCHANGED tileVars

\* one pass of the while statement: dcrAssembleSubregion is called; it
\* returns, and the convergence is computed again when useConvergence is
\* set, or an exception is raised (by it, before it writes the models, or by
\* calculateConvergence after it) and logged
dcrIterate ==
    /\ dpc = "while"
    /\ WhileCondition
    /\ dcrCalls' = dcrCalls + 1
    /\ LET t == Len(tiles)
       IN  \/ \* dcrAssembleSubregion raises
              /\ dcrRaised' = dcrRaised \cup {modelIter}
              /\ UNCHANGED <<dcrModels, convergenceMetric, convergenceCheck, convergenceList>>
           \/ \* calculateConvergence raises
              /\ dcrConfig.useConvergence
              /\ dcrModels' = [dcrModels EXCEPT ![t] = modelIter + 1]
              /\ dcrRaised' = dcrRaised \cup {modelIter}
              /\ UNCHANGED <<convergenceMetric, convergenceCheck, convergenceList>>
           \/ \* no exception
              /\ dcrModels' = [dcrModels EXCEPT ![t] = modelIter + 1]
              /\ UNCHANGED dcrRaised
              /\ IF dcrConfig.useConvergence
                 THEN \E measured \in Metrics :
                        /\ convergenceMetric' = measured
                        /\ convergenceCheck' =
                              RelativeChange(convergenceList[Len(convergenceList)], measured)
                        /\ convergenceList' = Append(convergenceList, measured)
                 ELSE UNCHANGED <<convergenceMetric, convergenceCheck, convergenceList>>
    /\ dcrEndOfBody
    /\ UNCHANGED dcrConfig
    /\ UNCHANGED tileVars

\* the condition of the while statement is false: the loop of the tile ends
dcrWhileExit ==
    /\ dpc = "while"
    /\ ~WhileCondition
    /\ dpc' = "for"
    /\ UNCHANGED <<dcrConfig, modelIter, convergenceMetric, convergenceCheck, convergenceList,
                   dcrModels, dcrCalls, dcrRaised>>
    /\ UNCHANGED tileVars

\* fillCoadd and stackCoadd: the sub-band coadds are returned
dcrFillCoadd ==
    /\ dpc = "fill"
    /\ dpc' = "returned"
    /\ UNCHANGED <<dcrConfig, modelIter, convergenceMetric, convergenceCheck, convergenceList,
                   dcrModels, dcrCalls, dcrRaised>>
    /\ UNCHANGED tileVars

----------------------------------------------------------------------------
(* DcrAssembleCoaddTask.clampModel, at one pixel.  A float is a fraction   *)
(* n/d with d >= 0: d = 0 stands for NaN (n = 0), +inf (n > 0) and -inf    *)
(* (n < 0)                                                                 *)

\* DcrAssembleCoaddConfig.modelClampFactor
modelClampFactor == 2

\* float arithmetic: a sum with NaN, and inf - inf, are NaN
RAdd(a, b) == Rat(a.n * b.d + b.n * a.d, a.d * b.d)
RScale(a, k) == Rat(a.n * k, a.d)
ROver(a, k) == Rat(a.n, a.d * k)
RAbs(a) == Rat(IF a.n < 0 THEN -a.n ELSE a.n, a.d)

\* a < b as numpy compares floats: False when either is NaN
Less(a, b) == Greater(b, a)

\* newModel += oldModel: images and variances add, masks are OR-ed
PlusEquals(mi, other) ==
    [image |-> RAdd(mi.image, other.image),
     variance |-> RAdd(mi.variance, other.variance),
     mask |-> mi.mask \cup other.mask]

\* ~(numpy.isfinite(newImage) | numpy.isfinite(newVariance))
nonFinitePixels(mi) == ~(isfinite(mi.image) \/ isfinite(mi.variance))

\* the product of the two comparisons against oldModel*modelClampFactor
highPixels(mi, old) ==
    /\ Greater(RAbs(mi.image), RAbs(RScale(old.image, modelClampFactor)))
    /\ Greater(RAbs(mi.variance), RAbs(RScale(old.variance, modelClampFactor)))

\* the product of the two comparisons against oldModel/modelClampFactor
lowPixels(mi, old) ==
    /\ Less(RAbs(mi.image), RAbs(ROver(old.image, modelClampFactor)))
    /\ Less(RAbs(mi.variance), RAbs(ROver(old.variance, modelClampFactor)))

\* clampModel(residual, oldModel, bbox) at one pixel
clampModel(res, old) ==
    LET sum == PlusEquals(res, old)
        blanked == IF nonFinitePixels(sum)
                   THEN [image |-> Zero, variance |-> Zero, mask |-> {"NO_DATA"}]
                   ELSE sum
        high == IF highPixels(blanked, old)
                THEN [blanked EXCEPT !.image = RScale(old.image, modelClampFactor),
                                     !.variance = RScale(old.variance, modelClampFactor)]
                ELSE blanked
    IN  IF lowPixels(high, old)
        THEN [high EXCEPT !.image = ROver(old.image, modelClampFactor),
                          !.variance = ROver(old.variance, modelClampFactor)]
        ELSE high

\* the call of clampModel made by dcrAssembleSubregion
clampCall ==
    /\ kpc = "call"
    /\ newModel' = clampModel(residual, oldModel)
    /\ kpc' = "returned"
    /\ UNCHANGED <<oldModel, residual>>

----------------------------------------------------------------------------
(* DcrAssembleCoaddTask.regularizeModel, at one pixel, in exact arithmetic: *)
(* the fractions are kept in lowest terms                                  *)

\* DcrAssembleCoaddConfig.clampFrequency
clampFrequency == 2

RECURSIVE GCD(_, _)
GCD(a, b) == IF b = 0 THEN a ELSE GCD(b, a % b)

\* a fraction in lowest terms; NaN and the infinities keep d = 0
RNorm(a) ==
    IF a.d = 0
    THEN Rat(IF a.n > 0 THEN 1 ELSE IF a.n < 0 THEN -1 ELSE 0, 0)
    ELSE LET g == GCD(IF a.n < 0 THEN -a.n ELSE a.n, a.d)
         IN  Rat(a.n \div g, a.d \div g)

QAdd(a, b) == RNorm(RAdd(a, b))
QSub(a, b) == RNorm(RAdd(a, Rat(-b.n, b.d)))
QTimes(a, k) == RNorm(RScale(a, k))
QOver(a, k) == RNorm(ROver(a, k))

\* the sum of the images of the models
RECURSIVE SumModels(_)
SumModels(models) ==
    IF models = << >> THEN Zero
    ELSE QAdd(models[1], SumModels(Tail(models)))

\* numpy.mean over the models
MeanModels(models) == QOver(SumModels(models), Len(models))

\* a mutant of excessShare: the excess is not divided among the models
excessUndivided(total, nModels) == total

\* excess /= nModels
excessShare(total, nModels) == QOver(total, nModels)

\* the head of regularizeModel: templateImage, excess and noiseLevel
regStart ==
    /\ gpc = "call"
    /\ templateImage' = MeanModels(dcrSubModelOut)
    /\ excess' = Zero
    /\ regI' = 1
    /\ gpc' = "loop"
    /\ UNCHANGED <<dcrSubModelOut, modelsBefore, noiseLevel, clipsMade>>

\* one pass of the first for loop: the model is clipped from above, then,
\* as it then stands, from below, what is taken off going to excess
regClipModel ==
    /\ gpc = "loop"
    /\ regI <= Len(dcrSubModelOut)
    /\ LET modelVals == dcrSubModelOut[regI]
           upper == QTimes(templateImage, clampFrequency)
           lower == QOver(templateImage, clampFrequency)
           isHigh == Greater(modelVals, QAdd(upper, noiseLevel))
           excessHigh == IF isHigh THEN QAdd(excess, QSub(modelVals, upper)) ELSE excess
           valsHigh == IF isHigh THEN upper ELSE modelVals
           isLow == Less(valsHigh, QSub(lower, noiseLevel))
           excessLow == IF isLow THEN QAdd(excessHigh, QSub(valsHigh, lower)) ELSE excessHigh
           valsLow == IF isLow THEN lower ELSE valsHigh
       IN  /\ dcrSubModelOut' = [dcrSubModelOut EXCEPT ![regI] = valsLow]
           /\ excess' = excessLow
           /\ clipsMade' = [clipsMade EXCEPT ![regI] =
                               (IF isHigh THEN {"high"} ELSE {}) \cup
                               (IF isLow THEN {"low"} ELSE {})]
    /\ regI' = regI + 1
    /\ UNCHANGED <<modelsBefore, templateImage, noiseLevel, gpc>>

\* excess /= nModels, and the second for loop: every model gets its share
regShareExcess ==
    /\ gpc = "loop"
    /\ regI > Len(dcrSubModelOut)
    /\ LET share == excessShare(excess, Len(dcrSubModelOut))
       IN  /\ excess' = share
           /\ dcrSubModelOut' = [i \in DOMAIN dcrSubModelOut |-> QAdd(dcrSubModelOut[i], share)]
    /\ gpc' = "returned"
    /\ UNCHANGED <<modelsBefore, templateImage, noiseLevel, clipsMade, regI>>

----------------------------------------------------------------------------
(* dcrAssembleSubregion: the convergence-weighted gain, conditionDcrModel  *)
(* and the assignment to the models, at one pixel                          *)

\* DcrAssembleCoaddConfig.maxGain and minGain
maxGain == Rat(2, 1)
minGain == Rat(1, 2)

\* float product and quotient: 0*inf, 0/0 and inf/inf are NaN, x/0 is +-inf
RTimes(a, b) == Rat(a.n * b.n, a.d * b.d)
RDivide(a, b) ==
    IF b.n < 0 THEN Rat(-(a.n * b.d), -(a.d * b.n)) ELSE Rat(a.n * b.d, a.d * b.n)

\* the builtins max(a, b) and min(a, b): b is taken only if b > a (b < a),
\* so that a NaN first argument is returned
max(a, b) == IF Greater(b, a) THEN b ELSE a
min(a, b) == IF Less(b, a) THEN b ELSE a

\* the gain of an iteration
dcrGain(doWeightGain, convergenceMetricOld, convergenceMetricNew) ==
    IF doWeightGain
    THEN min(max(RDivide(convergenceMetricOld, convergenceMetricNew), minGain), maxGain)
    ELSE Rat(1, 1)

\* conditionDcrModel at one pixel: newModel *= gain (the variance by gain
\* squared), newModel += oldModel, and image and variance over 1. + gain
conditionDcrModel(old, new, g) ==
    LET onePlusGain == RAdd(Rat(1, 1), g)
    IN  [image    |-> RDivide(RAdd(RTimes(new.image, g), old.image), onePlusGain),
         variance |-> RDivide(RAdd(RTimes(new.variance, RTimes(g, g)), old.variance),
                              onePlusGain),
         mask     |-> new.mask \cup old.mask]

\* the tail of dcrAssembleSubregion: the gain, conditionDcrModel and
\* model.assign
gainAssign ==
    /\ wpc = "call"
    /\ LET g == dcrGain(gainIn.doWeightGain, gainIn.convergenceMetric,
                        gainIn.convergenceMetricNew)
       IN  /\ gain' = g
           /\ written' = conditionDcrModel(gainIn.oldModel, gainIn.newModel, g)
    /\ wpc' = "written"
    /\ UNCHANGED gainIn

----------------------------------------------------------------------------
(* DcrAssembleCoaddTask.calculateConvergence and calculateSingleConvergence *)

\* DcrAssembleCoaddConfig.convergenceMaskPlanes
convergenceMaskPlanes == {"DETECTED"}

\* np.sum(vals[use]): the sum of the entries picked by use, 0 for none
RECURSIVE npSum(_, _)
npSum(vals, use) ==
    IF use = {}
    THEN Zero
    ELSE LET p == CHOOSE q \in use : TRUE
         IN  QAdd(vals[p], npSum(vals, use \ {p}))

diffVals(exposure) ==
    [p \in DOMAIN exposure |->
        RTimes(RAbs(QSub(exposure[p].image, exposure[p].template)), exposure[p].significance)]

refVals(exposure) ==
    [p \in DOMAIN exposure |-> RTimes(RAbs(exposure[p].image), exposure[p].significance)]

\* finitePixels & goodMaskPixels
usePixels(exposure) ==
    {p \in DOMAIN exposure :
        /\ isfinite(refVals(exposure)[p]) /\ isfinite(diffVals(exposure)[p])
        /\ convergenceMaskPlanes \subseteq exposure[p].mask}

\* the metric of one warp. The assignment metric = 0. made when no pixel is
\* usable is followed, with no else, by the assignment of the ratio of the
\* two sums, which is what is returned.
calculateSingleConvergence(exposure) ==
    LET metric0 == IF Cardinality(usePixels(exposure)) = 0 THEN Zero ELSE NaN
        metric1 == RDivide(npSum(diffVals(exposure), usePixels(exposure)),
                           npSum(refVals(exposure), usePixels(exposure)))
    IN  metric1

\* weightList[i]
expWeight(i) == Rat(1, 1)

\* one pass of the for loop of calculateConvergence
convEpoch ==
    /\ qpc = "loop"
    /\ Len(metricList) < Len(exposures)
    /\ LET i == Len(metricList) + 1
           singleMetric == calculateSingleConvergence(exposures[i])
       IN  /\ metric' = QAdd(metric, RTimes(singleMetric, expWeight(i)))
           /\ metricList' = Append(metricList, singleMetric)
           /\ weight' = QAdd(weight, expWeight(i))
    /\ UNCHANGED <<exposures, convergence, qpc>>

\* the end of calculateConvergence: 1. for no weight, else metric/weight
convReturn ==
    /\ qpc = "loop"
    /\ Len(metricList) = Len(exposures)
    /\ convergence' = IF weight = Zero THEN Rat(1, 1) ELSE RDivide(metric, weight)
    /\ qpc' = "returned"
    /\ UNCHANGED <<exposures, metric, weight, metricList>>

----------------------------------------------------------------------------
(* DcrAssembleCoaddTask.dcrDivideCoadd                                     *)

\* np.isnan
isnan(v) == v.d = 0 /\ v.n = 0

\* np.isnan(image) ^ np.isnan(variance): exactly one of the two is NaN
badPixels(maskedImage) ==
    {p \in DOMAIN maskedImage : isnan(maskedImage[p].image) # isnan(maskedImage[p].variance)}

\* the list returned for a template and a number of sub-bands: the clone
\* with its bad pixels zeroed and given the mask NO_DATA, divided, without
\* CLIPPED, and then range(1, n) further clones of it
dcrDivideCoadd(template, n) ==
    LET maskedImage ==
            [p \in DOMAIN template |->
                IF p \in badPixels(template)
                THEN [image |-> QOver(Zero, n), variance |-> QOver(Zero, n),
                      mask |-> {"NO_DATA"} \ {"CLIPPED"}]
                ELSE [image |-> QOver(template[p].image, n),
                      variance |-> QOver(template[p].variance, n),
                      mask |-> template[p].mask \ {"CLIPPED"}]]
    IN  <<maskedImage>> \o [subfilter \in 1 .. (n - 1) |-> maskedImage]

divideCall ==
    /\ hpc = "call"
    /\ subBandImages' = dcrDivideCoadd(coaddExposure, dcrNumSubfilters)
    /\ hpc' = "returned"
    /\ UNCHANGED <<coaddExposure, dcrNumSubfilters>>

----------------------------------------------------------------------------
(* DcrAssembleCoaddTask.dcrShiftCalculate and buildMatchedTemplate         *)

\* whether self.config.<name> can be read: a Config has the fields its class
\* declares and no other attribute
hasField(cfg, name) == name \in DOMAIN cfg

\* the (wlStart, wlEnd) pairs yielded: dcrNumSubbands of them, of width
\* filterWidth/dcrNumSubbands, from lambdaEff - filterWidth/2
wavelengthGenerator(lambdaEff, filterWidth, dcrNumSubbands) ==
    LET wlStep == Rat(filterWidth, dcrNumSubbands)
        wl(k) == QAdd(Rat(-filterWidth, 2), QTimes(wlStep, k - 1))
        wlStart(k) == QAdd(Rat(lambdaEff, 1), wl(k))
    IN  [k \in 1 .. dcrNumSubbands |-> <<wlStart(k), QAdd(wlStart(k), wlStep)>>]

\* the list of shifts, one per pair of wavelengths yielded. The number of
\* pairs is read from self.config.dcrNumSubbands; reading an attribute the
\* config does not have raises AttributeError.
dcrShiftCalculate(cfg) ==
    IF ~hasField(cfg, "dcrNumSubbands")
    THEN [raised |-> "AttributeError", dcrShift |-> << >>]
    ELSE [raised |-> "",
          dcrShift |-> wavelengthGenerator(cfg.lambdaEff, cfg.filterWidth, cfg.dcrNumSubbands)]

\* the template: the terms convolveDcrModelPlane(model, dcr) added up, one for
\* each pair of zip(dcrShift, dcrModels)
buildMatchedTemplate(cfg, models) ==
    LET shifts == dcrShiftCalculate(cfg)
        nTerms == IF Len(shifts.dcrShift) < Len(models) THEN Len(shifts.dcrShift) ELSE Len(models)
    IN  IF shifts.raised # ""
        THEN [raised |-> shifts.raised, terms |-> << >>]
        ELSE IF nTerms > 0 /\ cfg.useFFT
        THEN [raised |-> "NotImplementedError", terms |-> << >>]
        ELSE [raised |-> "",
              terms |-> [k \in 1 .. nTerms |-> [model |-> models[k], dcr |-> shifts.dcrShift[k]]]]

templateCall ==
    /\ mpc = "call"
    /\ matchedTemplate' = buildMatchedTemplate(shiftConfig, shiftModels)
    /\ mpc' = "done"
    /\ UNCHANGED <<shiftConfig, shiftModels>>

----------------------------------------------------------------------------
(* DcrAssembleCoaddTask.dcrAssembleSubregion on a row of pixels, for one   *)
(* warp and two sub-band models; the variance planes are zero and every    *)
(* pixel of the base mask carries DETECTED                                 *)

\* the width of a tile of _subBBoxIter (subregionSize), in pixels
tileWidth == 2

StripWidth == MaxDcrTiles * tileWidth

\* the t-th tile and the same grown by bufferSize and clipped to the models
tileBox(t) == ((t - 1) * tileWidth + 1) .. (t * tileWidth)
bboxGrow(t, bufferSize) ==
    {p \in 1 .. StripWidth : \E q \in tileBox(t) : p - q <= bufferSize /\ q - p <= bufferSize}

\* the shift of each sub-band, in whole pixels along the row
stripDcrShift == <<0, 1>>

\* convolveDcrModelPlane within a box: NaN pixels set to 0, then
\* scipy.ndimage.interpolation.shift, which fills with 0 from outside
convolveDcrModelPlane(image, dcr, box) ==
    [q \in box |->
        IF (q - dcr) \in box /\ ~isnan(image[q - dcr]) THEN image[q - dcr] ELSE Zero]

\* templateImage += convolveDcrModelPlane(model, dcr, bbox), for each model
stripTemplate(models, box) ==
    [q \in box |->
        SumModels([k \in DOMAIN models |->
                      convolveDcrModelPlane(models[k], stripDcrShift[k], box)[q]])]

\* whether 1./np.std of the finite residual values is a finite weight: not
\* when there is no value (NaN) or when they are all equal (inf)
weightIsFinite(residuals, box) ==
    \E p, q \in box :
        /\ isfinite(residuals[p]) /\ isfinite(residuals[q])
        /\ residuals[p] # residuals[q]

\* regularizeModel at one pixel for a given noiseLevel
regularizeModel(vals, noise) ==
    LET template == MeanModels(vals)
        upper == QTimes(template, clampFrequency)
        lower == QOver(template, clampFrequency)
        isHigh(v) == Greater(v, QAdd(upper, noise))
        valHigh(v) == IF isHigh(v) THEN upper ELSE v
        isLow(v) == Less(valHigh(v), QSub(lower, noise))
        valLow(v) == IF isLow(v) THEN lower ELSE valHigh(v)
        taken == [i \in DOMAIN vals |-> QSub(vals[i], valLow(vals[i]))]
        share == excessShare(SumModels(taken), Len(vals))
    IN  [i \in DOMAIN vals |-> QAdd(valLow(vals[i]), share)]

\* the models after one call for tile t: the template and the residual over
\* bboxGrow, the residual shifted back for each sub-band and stacked (the
\* weighted mean of one warp), clampModel, regularizeModel (no pixel of the
\* base mask is 0, so noiseLevel is the np.std of nothing), conditionDcrModel
\* with gain 1, and the assignment over the tile
dcrAssembleSubregion(models, t, in) ==
    LET box == bboxGrow(t, in.bufferSize)
        cut == [k \in DOMAIN models |-> [q \in box |-> models[k][q]]]
        template == stripTemplate(cut, box)
        maskedImage == [q \in box |-> QSub(in.exposure[q], template[q])]
        finiteWeight == weightIsFinite(maskedImage, box)
        flat(v) == [image |-> v, variance |-> Zero, mask |-> {}]
        stacked(k) ==
            LET back == convolveDcrModelPlane(maskedImage, -stripDcrShift[k], box)
            IN  [p \in box |-> IF finiteWeight THEN back[p] ELSE NaN]
        clamped == [k \in DOMAIN models |->
                       [p \in box |-> RNorm(clampModel(flat(stacked(k)[p]), flat(cut[k][p])).image)]]
        regular == [p \in box |-> regularizeModel([k \in DOMAIN models |-> clamped[k][p]], NaN)]
        conditioned(k, p) ==
            RNorm(conditionDcrModel(flat(cut[k][p]), flat(regular[p][k]), Rat(1, 1)).image)
    IN  [k \in DOMAIN models |->
            [p \in 1 .. StripWidth |-> IF p \in tileBox(t) THEN conditioned(k, p) ELSE models[k][p]]]

\* one pass of the loop of assemble over the tiles: the next tile is solved
solveTile ==
    /\ nSolved < MaxDcrTiles
    /\ stripIn # << >>
    /\ subModelsBefore' = subModels
    /\ subModels' = dcrAssembleSubregion(subModels, nSolved + 1, stripIn)
    /\ nSolved' = nSolved + 1
    /\ UNCHANGED stripIn

----------------------------------------------------------------------------
(* BestSeeingWcsSelectImagesTask.runDataRef                                *)

\* np.sqrt(8.*np.log(2.)), the FWHM of a Gaussian of unit sigma, in
\* thousandths
FwhmPerSigma == 2355

\* sizeFwhm = psfSize * np.sqrt(8.*np.log(2.))
sizeFwhm(psfSize) == Rat(psfSize * FwhmPerSigma, 1000)

\* the truth value of an optional float field: False for None and for 0
Truthy(field) == field # << >> /\ field[1] # 0

\* the two tests made on an image that intersects the patch: whether it is
\* skipped
skipForMax(cfg, psfSize) ==
    Truthy(cfg.maxPsfFwhm) /\ Greater(sizeFwhm(psfSize), Rat(cfg.maxPsfFwhm[1], 1))
skipForMin(cfg, psfSize) ==
    Truthy(cfg.minPsfFwhm) /\ Greater(sizeFwhm(psfSize), Rat(cfg.minPsfFwhm[1], 1))

\* the orders np.argsort may give: the indices by increasing value
argsort(values) ==
    {order \in [DOMAIN values -> DOMAIN values] :
        /\ \A i, j \in DOMAIN values : i # j => order[i] # order[j]
        /\ \A i, j \in DOMAIN values : i < j => values[order[i]] <= values[order[j]]}

\* the test of nImagesMax at the head of runDataRef
selectEnter ==
    /\ ipc = "call"
    /\ ipc' = IF selectConfig.nImagesMax <= 0 THEN "RuntimeError" ELSE "loop"
    /\ UNCHANGED <<selectDataList, selectConfig, psfSizes, bestDataRefList,
                   filteredDataRefList, selI>>

\* one pass of the for loop: an image that intersects the patch and is not
\* skipped by either test is appended
selectImage ==
    /\ ipc = "loop"
    /\ selI <= Len(selectDataList)
    /\ LET data == selectDataList[selI]
           kept == /\ data.intersects
                   /\ ~skipForMax(selectConfig, data.psfSize)
                   /\ ~skipForMin(selectConfig, data.psfSize)
       IN  /\ psfSizes' = IF kept THEN Append(psfSizes, data.psfSize) ELSE psfSizes
           /\ bestDataRefList' = IF kept THEN Append(bestDataRefList, selI) ELSE bestDataRefList
    /\ selI' = selI + 1
    /\ UNCHANGED <<selectDataList, selectConfig, filteredDataRefList, ipc>>

\* the tail of runDataRef: the first nImagesMax of the argsort when more
\* were kept, else the list as it is, logged with psfSizes[0] and
\* psfSizes[-1]
selectReturn ==
    /\ ipc = "loop"
    /\ selI > Len(selectDataList)
    /\ IF Len(psfSizes) > selectConfig.nImagesMax
       THEN \E order \in argsort(psfSizes) :
                /\ filteredDataRefList' =
                       [i \in 1 .. selectConfig.nImagesMax |-> bestDataRefList[order[i]]]
                /\ ipc' = "returned"
       ELSE IF psfSizes = << >>
       THEN /\ ipc' = "IndexError"
            /\ UNCHANGED filteredDataRefList
       ELSE /\ filteredDataRefList' = bestDataRefList
            /\ ipc' = "returned"
    /\ UNCHANGED <<selectDataList, selectConfig, psfSizes, bestDataRefList, selI>>

----------------------------------------------------------------------------
(* Specifications                                                          *)

IdleTile ==
    /\ bbox = EmptyBox
    /\ subregionSize = <<0, 0>>
    /\ rowShift = 0
    /\ colShift = 0
    /\ gen = "idle"
    /\ tiles = << >>

IdleAsm ==
    /\ strategy = "base"
    /\ scene = "clean"
    /\ altMaskList = << >>
    /\ coadd = << >>
    /\ nImage = << >>
    /\ failed = {}
    /\ pc = "idle"

IdleCfg ==
    /\ configIn = [statistic |-> "MEANCLIP", doInterp |-> TRUE, doSigmaClip |-> FALSE,
                   doPsfMatch |-> FALSE, warpType |-> "direct"]
    /\ config = configIn
    /\ vpc = "idle"

IdlePrep ==
    /\ refList = << >>
    /\ refIdx = 1
    /\ tempExpRefList = << >>
    /\ weightList = << >>
    /\ imageScalerList = << >>
    /\ ppc = "idle"

IdleRun ==
    /\ doInterp = TRUE
    /\ varBefore = << >>
    /\ varArray = << >>
    /\ rpc = "idle"

IdleClip ==
    /\ nPixel = 0
    /\ warpProfile = << >>
    /\ warpI = 1
    /\ ignoreArr = << >>
    /\ overlapDetArr = << >>
    /\ artifactSpanSets = << >>
    /\ clipIndices = << >>
    /\ clipCoadd = << >>
    /\ cpc = "idle"

IdleCw ==
    /\ cwConfig = << >>
    /\ warpDiffs = << >>
    /\ templateFootprints = [isNone |-> TRUE, positive |-> {}]
    /\ cwI = 1
    /\ epochCountImage = << >>
    /\ cwNImage = << >>
    /\ spanSetArtifactList = << >>
    /\ spanSetNoDataMaskList = << >>
    /\ cwAltMasks = << >>
    /\ cwpc = "idle"

IdleDcr ==
    /\ dcrConfig = << >>
    /\ modelIter = 0
    /\ convergenceMetric = 0
    /\ convergenceCheck = Rat(1, 1)
    /\ convergenceList = << >>
    /\ dcrModels = << >>
    /\ dcrCalls = 0
    /\ dcrRaised = {}
    /\ dpc = "idle"

IdleClamp ==
    /\ oldModel = << >>
    /\ residual = << >>
    /\ newModel = << >>
    /\ kpc = "idle"

IdleReg ==
    /\ dcrSubModelOut = << >>
    /\ modelsBefore = << >>
    /\ templateImage = Zero
    /\ excess = Zero
    /\ noiseLevel = Zero
    /\ clipsMade = << >>
    /\ regI = 0
    /\ gpc = "idle"

IdleGain ==
    /\ gainIn = << >>
    /\ gain = Zero
    /\ written = << >>
    /\ wpc = "idle"

IdleConv ==
    /\ exposures = << >>
    /\ metric = Zero
    /\ weight = Zero
    /\ metricList = << >>
    /\ convergence = Zero
    /\ qpc = "idle"

IdleDiv ==
    /\ coaddExposure = << >>
    /\ dcrNumSubfilters = 0
    /\ subBandImages = << >>
    /\ hpc = "idle"

IdleShift ==
    /\ shiftConfig = << >>
    /\ shiftModels = << >>
    /\ matchedTemplate = << >>
    /\ mpc = "idle"

IdleStrip ==
    /\ stripIn = << >>
    /\ subModels = << >>
    /\ subModelsBefore = << >>
    /\ nSolved = 0

IdleSelect ==
    /\ selectDataList = << >>
    /\ selectConfig = << >>
    /\ psfSizes = << >>
    /\ bestDataRefList = << >>
    /\ filteredDataRefList = << >>
    /\ selI = 0
    /\ ipc = "idle"

\* _subBBoxIter alone, driven to exhaustion
InitTile ==
    /\ \E x0 \in {0, 2}, y0 \in {0, 3}, w \in 0 .. MaxDim, h \in 0 .. MaxDim :
           bbox = Box2I(x0, y0, w, h)
    /\ subregionSize \in (0 .. MaxSub) \X (0 .. MaxSub)
    /\ rowShift = 0
    /\ colShift = 0
    /\ gen = "start"
    /\ tiles = << >>
    /\ IdleAsm /\ IdleCfg /\ IdlePrep /\ IdleRun /\ IdleClip /\ IdleCw /\ IdleDcr /\ IdleClamp /\ IdleReg /\ IdleGain /\ IdleConv /\ IdleDiv /\ IdleShift /\ IdleStrip /\ IdleSelect

NextTile ==
    \/ IterStart /\ UNCHANGED exceptTile
    \/ IterResume /\ UNCHANGED exceptTile

SpecTile == InitTile /\ [][NextTile]_vars

\* assemble of the three tasks, from the call to the return
InitAssemble ==
    /\ \E w \in 0 .. MaxPatch, h \in 0 .. MaxPatch : bbox = Box2I(2, 3, w, h)
    /\ subregionSize \in (0 .. MaxTile) \X (0 .. MaxTile)
    /\ rowShift = 0
    /\ colShift = 0
    /\ gen = "start"
    /\ tiles = << >>
    /\ strategy \in {"base", "safeClip", "compareWarp"}
    /\ scene \in Scenes
    /\ altMaskList \in AltMaskLists(strategy, bbox)
    /\ coadd = [p \in Pixels(bbox) |-> BlankPixel]
    /\ nImage = [p \in Pixels(bbox) |-> 0]
    /\ failed = {}
    /\ pc = "for"
    /\ IdleCfg /\ IdlePrep /\ IdleRun /\ IdleClip /\ IdleCw /\ IdleDcr /\ IdleClamp /\ IdleReg /\ IdleGain /\ IdleConv /\ IdleDiv /\ IdleShift /\ IdleStrip /\ IdleSelect

NextAssemble ==
    \/ ForFirst /\ UNCHANGED exceptAsm
    \/ ForNext /\ UNCHANGED exceptAsm
    \/ AssembleSubregionOk /\ UNCHANGED exceptAsm
    \/ AssembleSubregionRaise /\ UNCHANGED exceptAsm
    \/ AssembleReturn /\ UNCHANGED exceptAsm
    \/ CompareWarpReturn /\ UNCHANGED exceptAsm

SpecAssemble == InitAssemble /\ [][NextAssemble]_vars

\* a configuration is loaded, validated, and the task run
Statistics == Property \cup {"BOGUS", "mean", "__doc__"}

InitValidate ==
    /\ configIn \in [statistic : Statistics, doInterp : BOOLEAN, doSigmaClip : BOOLEAN,
                      doPsfMatch : BOOLEAN, warpType : {"direct"}]
    /\ config = configIn
    /\ vpc = "loaded"
    /\ IdleTile /\ IdleAsm /\ IdlePrep /\ IdleRun /\ IdleClip /\ IdleCw /\ IdleDcr /\ IdleClamp /\ IdleReg /\ IdleGain /\ IdleConv /\ IdleDiv /\ IdleShift /\ IdleStrip /\ IdleSelect

NextValidate ==
    \/ Validate /\ UNCHANGED exceptCfg
    \/ RunValidated /\ UNCHANGED exceptCfg

SpecValidate == InitValidate /\ [][NextValidate]_vars

\* prepareInputs on a list of up to MaxRefs data references
InitPrepare ==
    /\ \E n \in 0 .. MaxRefs : refList \in [1 .. n -> RefKinds]
    /\ refIdx = 1
    /\ tempExpRefList = << >>
    /\ weightList = << >>
    /\ imageScalerList = << >>
    /\ ppc = "loop"
    /\ IdleTile /\ IdleAsm /\ IdleCfg /\ IdleRun /\ IdleClip /\ IdleCw /\ IdleDcr /\ IdleClamp /\ IdleReg /\ IdleGain /\ IdleConv /\ IdleDiv /\ IdleShift /\ IdleStrip /\ IdleSelect

NextPrepare ==
    \/ PrepareRef /\ UNCHANGED exceptPrep
    \/ PrepareReturn /\ UNCHANGED exceptPrep

SpecPrepare == InitPrepare /\ [][NextPrepare]_vars

\* run, from the selection of the exposures to its return
InitRun ==
    /\ doInterp \in BOOLEAN
    /\ varBefore = << >>
    /\ varArray = << >>
    /\ rpc = "start"
    /\ IdleTile /\ IdleAsm /\ IdleCfg /\ IdlePrep /\ IdleClip /\ IdleCw /\ IdleDcr /\ IdleClamp /\ IdleReg /\ IdleGain /\ IdleConv /\ IdleDiv /\ IdleShift /\ IdleStrip /\ IdleSelect

NextRun ==
    \/ RunNothingToCoadd /\ UNCHANGED exceptRun
    \/ RunAssemble /\ UNCHANGED exceptRun
    \/ RunFinish /\ UNCHANGED exceptRun

SpecRun == InitRun /\ [][NextRun]_vars

\* what a warp can show in a candidate region of area n: <<bad, detected>>
Profiles(n) ==
    { pr \in { [bad |-> 0, det |-> 0], [bad |-> 0, det |-> 1], [bad |-> 0, det |-> n \div 2],
               [bad |-> 0, det |-> n \div 2 + 1], [bad |-> n \div 2, det |-> n \div 2],
               [bad |-> 2, det |-> 1] } :
        pr.bad + pr.det <= n }

\* Safe-Clip's assemble on one candidate region of the difference image
InitClip ==
    /\ nPixel \in {1, MaxArea}
    /\ \E n \in 1 .. MaxClipEpochs : warpProfile \in [1 .. n -> Profiles(nPixel)]
    /\ warpI = 1
    /\ ignoreArr = [i \in 1 .. Len(warpProfile) |-> 0]
    /\ overlapDetArr = [i \in 1 .. Len(warpProfile) |-> 0]
    /\ artifactSpanSets = [i \in 1 .. Len(warpProfile) |-> [CLIPPED |-> {}]]
    /\ clipIndices = << >>
    /\ clipCoadd = << >>
    /\ cpc = "scan"
    /\ IdleTile /\ IdleAsm /\ IdleCfg /\ IdlePrep /\ IdleRun /\ IdleCw /\ IdleDcr /\ IdleClamp /\ IdleReg /\ IdleGain /\ IdleConv /\ IdleDiv /\ IdleShift /\ IdleStrip /\ IdleSelect

NextClip ==
    \/ ScanWarp /\ UNCHANGED exceptClip
    \/ Classify /\ UNCHANGED exceptClip
    \/ detectClipBig /\ UNCHANGED exceptClip
    \/ clipAssemble /\ UNCHANGED exceptClip

SpecClip == InitClip /\ [][NextClip]_vars

\* what a warp can show in and around a large candidate region of area n: no
\* detection, or one that covers the region and the pixel past it, or the
\* region alone, or all of it but the first pixel, which is bad
BigProfiles(n) ==
    { [bad |-> 0, det |-> 0], [bad |-> 0, det |-> n + 1], [bad |-> 0, det |-> n],
      [bad |-> 1, det |-> n] }

\* Safe-Clip's assemble on a candidate region of more than minBigOverlap pixels
InitClipBig ==
    /\ nPixel = minBigOverlap + 1
    /\ \E n \in 1 .. MaxClipEpochs - 1 : warpProfile \in [1 .. n -> BigProfiles(nPixel)]
    /\ warpI = 1
    /\ ignoreArr = [i \in 1 .. Len(warpProfile) |-> 0]
    /\ overlapDetArr = [i \in 1 .. Len(warpProfile) |-> 0]
    /\ artifactSpanSets = [i \in 1 .. Len(warpProfile) |-> [CLIPPED |-> {}]]
    /\ clipIndices = << >>
    /\ clipCoadd = << >>
    /\ cpc = "scan"
    /\ IdleTile /\ IdleAsm /\ IdleCfg /\ IdlePrep /\ IdleRun /\ IdleCw /\ IdleDcr /\ IdleClamp
    /\ IdleReg /\ IdleGain /\ IdleConv /\ IdleDiv /\ IdleShift /\ IdleStrip /\ IdleSelect

SpecClipBig == InitClipBig /\ [][NextClip]_vars

\* what a warp can show in a very large candidate region of area n: no
\* detection, or the whole region detected, or all of it but a bad pixel
WideProfiles(n) ==
    { [bad |-> 0, det |-> 0], [bad |-> 0, det |-> n], [bad |-> 1, det |-> n - 1] }

\* detectClip on a candidate region whose area is about that of a uint16 cell
InitClipWide ==
    /\ nPixel \in {Uint16Cells - 1, Uint16Cells, Uint16Cells + 1}
    /\ \E n \in 1 .. NEpochs : warpProfile \in [1 .. n -> WideProfiles(nPixel)]
    /\ warpI = 1
    /\ ignoreArr = [i \in 1 .. Len(warpProfile) |-> 0]
    /\ overlapDetArr = [i \in 1 .. Len(warpProfile) |-> 0]
    /\ artifactSpanSets = [i \in 1 .. Len(warpProfile) |-> [CLIPPED |-> {}]]
    /\ clipIndices = << >>
    /\ clipCoadd = << >>
    /\ cpc = "scan"
    /\ IdleTile /\ IdleAsm /\ IdleCfg /\ IdlePrep /\ IdleRun /\ IdleCw /\ IdleDcr /\ IdleClamp
    /\ IdleReg /\ IdleGain /\ IdleConv /\ IdleDiv /\ IdleShift /\ IdleStrip /\ IdleSelect

\* detectClip alone: its two loops
NextDetectClip ==
    \/ ScanWarp /\ UNCHANGED exceptClip
    \/ Classify /\ UNCHANGED exceptClip

SpecClipWide == InitClipWide /\ [][NextDetectClip]_vars

\* the difference image of warp i when the first kA warps show region A (two
\* pixels), the next kB region B (two pixels, one shared with A), the last
\* nBad have a bad first pixel and the last nNone have no PSF-matched warp
WarpDiff(i, n, kA, kB, nBad, nNone) ==
    [isNone     |-> i > n - nNone,
     footprints |-> IF i <= kA THEN {{1, 2}} ELSE IF i <= kA + kB THEN {{2, 3}} ELSE {},
     mask       |-> [x \in cwPixels |-> IF x = 1 /\ i > n - nBad THEN {"BAD"} ELSE {}]]

\* findArtifacts on up to MaxCwEpochs warps
InitCompare ==
    /\ cwConfig \in [maxNumEpochs : {2, MaxCwEpochs},
                      maxFractionEpochsLow : {Rat(4, 10)},
                      maxFractionEpochsHigh : {Rat(3, 100)},
                      spatialThreshold : {Rat(0, 1), Rat(1, 2), Rat(1, 1)},
                      doPreserveContainedBySource : BOOLEAN]
    /\ \E n \in {2, 5, MaxCwEpochs} :
       \E kA \in {0, 1, 2, 6} : \E kB \in {0, 1, 3} : \E nBad \in {0, 2} : \E nNone \in {0, 1} :
           /\ kA + kB <= n
           /\ warpDiffs = [i \in 1 .. n |-> WarpDiff(i, n, kA, kB, nBad, nNone)]
    /\ templateFootprints \in
           IF cwConfig.doPreserveContainedBySource
           THEN { [isNone |-> FALSE, positive |-> fps] : fps \in {{}, {{1, 2}}, {{1, 2, 3}}} }
           ELSE { [isNone |-> TRUE, positive |-> {}] }
    /\ cwI = 1
    /\ epochCountImage = [x \in cwPixels |-> 0]
    /\ cwNImage = [x \in cwPixels |-> 0]
    /\ spanSetArtifactList = << >>
    /\ spanSetNoDataMaskList = << >>
    /\ cwAltMasks = << >>
    /\ cwpc = "count"
    /\ IdleTile /\ IdleAsm /\ IdleCfg /\ IdlePrep /\ IdleRun /\ IdleClip /\ IdleDcr /\ IdleClamp /\ IdleReg /\ IdleGain /\ IdleConv /\ IdleDiv /\ IdleShift /\ IdleStrip /\ IdleSelect

NextCompare ==
    \/ cwCountWarp /\ UNCHANGED exceptCw
    \/ cwCountDone /\ UNCHANGED exceptCw
    \/ cwFilterWarp /\ UNCHANGED exceptCw
    \/ cwReturn /\ UNCHANGED exceptCw

SpecCompare == InitCompare /\ [][NextCompare]_vars

\* the DCR assemble on a patch of up to MaxDcrTiles sub-boxes
InitDcr ==
    /\ \E w \in 1 .. MaxDcrTiles : bbox = Box2I(0, 0, w, 1)
    /\ subregionSize = <<1, 1>>
    /\ rowShift = 0
    /\ colShift = 0
    /\ gen = "start"
    /\ tiles = << >>
    /\ dcrConfig \in [maxNumIter : 0 .. MaxDcrIter, minNumIter : 0 .. MaxDcrIter,
                       useConvergence : BOOLEAN]
    /\ modelIter = 0
    /\ convergenceMetric = 0
    /\ convergenceCheck = Rat(1, 1)
    /\ convergenceList = << >>
    /\ dcrModels = << >>
    /\ dcrCalls = 0
    /\ dcrRaised = {}
    /\ dpc = "for"
    /\ IdleAsm /\ IdleCfg /\ IdlePrep /\ IdleRun /\ IdleClip /\ IdleCw /\ IdleClamp /\ IdleReg /\ IdleGain /\ IdleConv /\ IdleDiv /\ IdleShift /\ IdleStrip /\ IdleSelect

NextDcr ==
    \/ dcrForFirst /\ UNCHANGED exceptDcr
    \/ dcrForNext /\ UNCHANGED exceptDcr
    \/ dcrIterate /\ UNCHANGED exceptDcr
    \/ dcrWhileExit /\ UNCHANGED exceptDcr
    \/ dcrFillCoadd /\ UNCHANGED exceptDcr

SpecDcr == InitDcr /\ [][NextDcr]_vars

\* the same, each statement of assemble being executed once it is reached
SpecDcrLive == SpecDcr /\ WF_vars(NextDcr)

\* the images and variances of a model, finite
OldValues == { Rat(v, 1) : v \in -MaxModel .. MaxModel }

\* the images and variances of a stacked residual: finite, +-inf and NaN
ResidualValues ==
    { Rat(v, 1) : v \in {-3 * MaxModel, -1, 0, 1, 3 * MaxModel} } \cup {PlusInf, Rat(-1, 0), NaN}

\* clampModel on one pixel of a model and of the residual stacked for it
InitClamp ==
    /\ oldModel \in [image : OldValues, variance : {Rat(v, 1) : v \in 0 .. MaxModel},
                      mask : {{}}]
    /\ residual \in [image : ResidualValues, variance : ResidualValues,
                      mask : {{}, {"CLIPPED"}}]
    /\ newModel = << >>
    /\ kpc = "call"
    /\ IdleTile /\ IdleAsm /\ IdleCfg /\ IdlePrep /\ IdleRun /\ IdleClip /\ IdleCw /\ IdleDcr /\ IdleReg /\ IdleGain /\ IdleConv /\ IdleDiv /\ IdleShift /\ IdleStrip /\ IdleSelect

NextClamp == clampCall /\ UNCHANGED exceptClamp

SpecClamp == InitClamp /\ [][NextClamp]_vars

\* the values of noiseLevel: regularizeSigma times a standard deviation, NaN
\* when no pixel of the reference mask is background
NoiseLevels == {Rat(0, 1), Rat(1, 1), NaN}

\* regularizeModel on one pixel of up to MaxSubfilters sub-band models
InitRegularize ==
    /\ \E nModels \in 1 .. MaxSubfilters :
          /\ dcrSubModelOut \in [1 .. nModels -> OldValues]
          /\ clipsMade = [i \in 1 .. nModels |-> {}]
    /\ modelsBefore = dcrSubModelOut
    /\ noiseLevel \in NoiseLevels
    /\ templateImage = Zero
    /\ excess = Zero
    /\ regI = 0
    /\ gpc = "call"
    /\ IdleTile /\ IdleAsm /\ IdleCfg /\ IdlePrep /\ IdleRun /\ IdleClip /\ IdleCw /\ IdleDcr
    /\ IdleClamp /\ IdleGain /\ IdleConv /\ IdleDiv /\ IdleShift /\ IdleStrip /\ IdleSelect

NextRegularize ==
    \/ regStart /\ UNCHANGED exceptReg
    \/ regClipModel /\ UNCHANGED exceptReg
    \/ regShareExcess /\ UNCHANGED exceptReg

SpecRegularize == InitRegularize /\ [][NextRegularize]_vars

\* the values of a convergence metric: zero, finite, and NaN
MetricValues == {Rat(0, 1), Rat(1, 1), Rat(4, 1), NaN}

\* the pixels of a model: image and variance
ModelPixels ==
    [image : OldValues, variance : {Rat(v, 1) : v \in 0 .. MaxModel}, mask : {{}}]

\* the tail of dcrAssembleSubregion on one pixel of one sub-band model
InitGain ==
    /\ gainIn \in [doWeightGain : BOOLEAN, convergenceMetric : MetricValues,
                    convergenceMetricNew : MetricValues,
                    oldModel : ModelPixels, newModel : ModelPixels]
    /\ gain = Zero
    /\ written = << >>
    /\ wpc = "call"
    /\ IdleTile /\ IdleAsm /\ IdleCfg /\ IdlePrep /\ IdleRun /\ IdleClip /\ IdleCw /\ IdleDcr
    /\ IdleClamp /\ IdleReg /\ IdleConv /\ IdleDiv /\ IdleShift /\ IdleStrip /\ IdleSelect

NextGain == gainAssign /\ UNCHANGED exceptGain

SpecGain == InitGain /\ [][NextGain]_vars

\* the pixels a warp can hold in the tile: a usable one, one outside the
\* convergence mask planes, one that is not finite
ConvPixels ==
    {[image |-> Rat(2, 1), template |-> Rat(1, 1), significance |-> Rat(1, 1), mask |-> {"DETECTED"}],
     [image |-> Rat(2, 1), template |-> Rat(1, 1), significance |-> Rat(1, 1), mask |-> {}],
     [image |-> NaN, template |-> Rat(1, 1), significance |-> Rat(1, 1), mask |-> {"DETECTED"}]}

ConvExposures == UNION {[1 .. n -> ConvPixels] : n \in 1 .. MaxVarPix}

\* calculateConvergence over up to NEpochs warps
InitConv ==
    /\ exposures \in UNION {[1 .. n -> ConvExposures] : n \in 0 .. NEpochs}
    /\ metric = Zero
    /\ weight = Zero
    /\ metricList = << >>
    /\ convergence = Zero
    /\ qpc = "loop"
    /\ IdleTile /\ IdleAsm /\ IdleCfg /\ IdlePrep /\ IdleRun /\ IdleClip /\ IdleCw /\ IdleDcr
    /\ IdleClamp /\ IdleReg /\ IdleGain /\ IdleDiv /\ IdleShift /\ IdleStrip /\ IdleSelect

NextConv == (convEpoch \/ convReturn) /\ UNCHANGED exceptConv

SpecConv == InitConv /\ [][NextConv]_vars

\* the pixels of a template coadd: image and variance a number or NaN
DividePixels ==
    [image : {Rat(2, 1), NaN}, variance : {Rat(1, 1), NaN}, mask : {{}, {"CLIPPED"}}]

\* dcrDivideCoadd on a template of up to MaxVarPix pixels
InitDivide ==
    /\ coaddExposure \in UNION {[1 .. n -> DividePixels] : n \in 1 .. MaxVarPix}
    /\ dcrNumSubfilters \in 1 .. MaxSubfilters
    /\ subBandImages = << >>
    /\ hpc = "call"
    /\ IdleTile /\ IdleAsm /\ IdleCfg /\ IdlePrep /\ IdleRun /\ IdleClip /\ IdleCw /\ IdleDcr
    /\ IdleClamp /\ IdleReg /\ IdleGain /\ IdleConv /\ IdleShift /\ IdleStrip /\ IdleSelect

NextDivide == divideCall /\ UNCHANGED exceptDiv

SpecDivide == InitDivide /\ [][NextDivide]_vars

\* the fields DcrAssembleCoaddConfig declares that the template reads
ShiftConfigs ==
    [lambdaEff : {478}, filterWidth : {147}, useFFT : BOOLEAN,
     dcrNumSubfilters : 1 .. MaxSubfilters]

\* buildMatchedTemplate for one epoch, with dcrNumSubfilters models
InitShift ==
    /\ shiftConfig \in ShiftConfigs
    /\ shiftModels \in [1 .. shiftConfig.dcrNumSubfilters -> 0 .. MaxModel]
    /\ matchedTemplate = << >>
    /\ mpc = "call"
    /\ IdleTile /\ IdleAsm /\ IdleCfg /\ IdlePrep /\ IdleRun /\ IdleClip /\ IdleCw /\ IdleDcr
    /\ IdleClamp /\ IdleReg /\ IdleGain /\ IdleConv /\ IdleDiv /\ IdleStrip /\ IdleSelect

NextShift == templateCall /\ UNCHANGED exceptShift

SpecShift == InitShift /\ [][NextShift]_vars

\* the sub-band models dcrDivideCoadd makes of a template of 2 everywhere
StripModels == [k \in 1 .. Len(stripDcrShift) |-> [p \in 1 .. StripWidth |-> Rat(1, 1)]]

\* the tiles of a row solved one after the other, for a warp of small values
InitStrip ==
    /\ stripIn \in [exposure : [1 .. StripWidth -> {Rat(v, 1) : v \in 0 .. MaxModel}],
                    bufferSize : {0, 1}]
    /\ subModels = StripModels
    /\ subModelsBefore = StripModels
    /\ nSolved = 0
    /\ IdleTile /\ IdleAsm /\ IdleCfg /\ IdlePrep /\ IdleRun /\ IdleClip /\ IdleCw /\ IdleDcr
    /\ IdleClamp /\ IdleReg /\ IdleGain /\ IdleConv /\ IdleDiv /\ IdleShift /\ IdleSelect

NextStrip == solveTile /\ UNCHANGED exceptStrip

SpecStrip == InitStrip /\ [][NextStrip]_vars

\* the images given to runDataRef
SelectData == [psfSize : 1 .. MaxPsf, intersects : BOOLEAN]

\* the configurations: the limits None, 0 or a number of pixels
SelectConfigs ==
    [nImagesMax : 0 .. MaxImages - 1,
     maxPsfFwhm : {<< >>, <<5>>},
     minPsfFwhm : {<< >>, <<0>>, <<3>>}]

\* runDataRef over up to MaxImages images
InitSelect ==
    /\ selectDataList \in UNION {[1 .. n -> SelectData] : n \in 0 .. MaxImages}
    /\ selectConfig \in SelectConfigs
    /\ psfSizes = << >>
    /\ bestDataRefList = << >>
    /\ filteredDataRefList = << >>
    /\ selI = 1
    /\ ipc = "call"
    /\ IdleTile /\ IdleAsm /\ IdleCfg /\ IdlePrep /\ IdleRun /\ IdleClip /\ IdleCw /\ IdleDcr
    /\ IdleClamp /\ IdleReg /\ IdleGain /\ IdleConv /\ IdleDiv /\ IdleShift /\ IdleStrip

NextSelect == (selectEnter \/ selectImage \/ selectReturn) /\ UNCHANGED exceptSelect

SpecSelect == InitSelect /\ [][NextSelect]_vars

----------------------------------------------------------------------------
(* Claims about _subBBoxIter                                               *)

CeilDiv(a, b) == (a + b - 1) \div b

Contains(outer, inner) == Pixels(inner) \subseteq Pixels(outer)

\* raster order: by row, and left to right within a row
RasterBefore(a, b) == a.y < b.y \/ (a.y = b.y /\ a.x < b.x)

\* C1: for a non-empty box and a subregionSize with both components >= 1, the
\* tiles yielded are non-empty, lie in the box, are pairwise disjoint and in
\* raster order; once the generator is exhausted they cover every pixel of the
\* box and number ceil(W/w)*ceil(H/h) (one tile, the box itself, when W <= w
\* and H <= h).
C1_Tiling ==
    /\ \A i \in 1 .. Len(tiles) :
          /\ ~isEmpty(tiles[i])
          /\ Contains(bbox, tiles[i])
    /\ \A i, j \in 1 .. Len(tiles) :
          i < j => /\ Pixels(tiles[i]) \cap Pixels(tiles[j]) = {}
                   /\ RasterBefore(tiles[i], tiles[j])
    /\ (~isEmpty(bbox) /\ subregionSize[1] >= 1 /\ subregionSize[2] >= 1)
          => gen \in {"start", "yielded", "exhausted"}
    /\ gen = "exhausted" =>
          /\ UNION { Pixels(tiles[i]) : i \in 1 .. Len(tiles) } = Pixels(bbox)
          /\ Len(tiles) = CeilDiv(bbox.w, subregionSize[1]) * CeilDiv(bbox.h, subregionSize[2])
          /\ (bbox.w <= subregionSize[1] /\ bbox.h <= subregionSize[2]) => tiles = <<bbox>>

\* C1 witness: a box tiled by several rows and columns, its last column and
\* row clipped, all tiles yielded
C1_Witness ==
    /\ gen = "exhausted"
    /\ Len(tiles) >= 4
    /\ bbox.w % subregionSize[1] # 0
    /\ bbox.h % subregionSize[2] # 0

----------------------------------------------------------------------------
(* Claims about AssembleCoaddTask.assemble                                 *)

\* what assemble returns over box when box is stacked in one piece
Finished(box) ==
    LET base == setCoaddEdgeBits(setInexactPsf(StackRegion(box)))
    IN  IF strategy = "compareWarp" THEN applyAltEdgeMask(base, altMaskList) ELSE base

AllTiles == UNION { Pixels(tiles[i]) : i \in 1 .. Len(tiles) }

\* C2: an exception raised while a tile is stacked does not leave assemble:
\* the loop goes on to every later tile, which is stacked and written; the
\* failed tile keeps its blank (un-stacked) pixels, which end up flagged
\* NO_DATA; and assemble returns the coadd.
C2_TileFailureContained ==
    /\ pc = "raised" => (failed = {} /\ tiles = << >>)
    /\ pc = "returned" =>
          /\ AllTiles = Pixels(bbox)
          /\ \A i \in 1 .. Len(tiles) : \A p \in Pixels(tiles[i]) :
                IF i \in failed
                THEN /\ coadd[p].image = Zero
                     /\ coadd[p].variance = Zero
                     /\ "NO_DATA" \in coadd[p].mask
                ELSE coadd[p] = Finished(tiles[i])[p]

\* C2 witness: assemble has returned, a tile failed and a later tile was stacked
C2_Witness ==
    /\ pc = "returned"
    /\ \E i \in failed : \E j \in 1 .. Len(tiles) : j > i /\ j \notin failed

\* C3: when no tile raised, the coadd and nImage that assemble returns are
\* those of stacking the whole patch as one tile, whatever subregionSize is.
C3_TilingInvariance ==
    (pc = "returned" /\ failed = {}) =>
        /\ coadd = Finished(bbox)
        /\ nImage = SubNImage(bbox)

\* C3 witness: a patch assembled from four tiles, with masked input pixels
\* and an alternate mask in play
C3_Witness ==
    /\ pc = "returned"
    /\ failed = {}
    /\ Len(tiles) >= 4
    /\ scene = "bad"
    /\ \E e \in Epochs : ~altMaskList[e].isNone /\ altMaskList[e].spans["CLIPPED"] # {}

\* C4: in the coadd returned by assemble (base, Safe-Clip, Compare-Warp),
\* every pixel with SENSOR_EDGE, CLIPPED or REJECTED set has INEXACT_PSF set.
C4_InexactPsf ==
    pc = "returned" =>
        \A p \in DOMAIN coadd :
            coadd[p].mask \cap {"SENSOR_EDGE", "CLIPPED", "REJECTED"} # {}
                => "INEXACT_PSF" \in coadd[p].mask

\* C4 witness: Compare-Warp has returned a coadd with a CLIPPED pixel and a
\* SENSOR_EDGE pixel that the stack itself did not flag
C4_Witness ==
    /\ pc = "returned"
    /\ strategy = "compareWarp"
    /\ \E p \in DOMAIN coadd : "CLIPPED" \in coadd[p].mask
    /\ \E p \in DOMAIN coadd :
          /\ "SENSOR_EDGE" \in coadd[p].mask
          /\ "SENSOR_EDGE" \notin StackRegion(bbox)[p].mask

\* C8: with an empty patch box, or a subregionSize component below 1, the
\* generator raises before yielding: no tile is yielded or stacked, the coadd
\* is never written, and assemble does not return.
C8_EmptyBoxRejected ==
    (isEmpty(bbox) \/ subregionSize[1] < 1 \/ subregionSize[2] < 1) =>
        /\ pc \in {"for", "raised"}
        /\ gen \in {"start", "raised"}
        /\ tiles = << >>
        /\ failed = {}
        /\ coadd = [p \in Pixels(bbox) |-> BlankPixel]

\* C8 witness: the generator has raised on an empty box (the subregionSize
\* being valid) and assemble was left
C8_Witness ==
    /\ pc = "raised"
    /\ isEmpty(bbox)
    /\ subregionSize[1] >= 1
    /\ subregionSize[2] >= 1

----------------------------------------------------------------------------
(* Claims about validate, prepareInputs and run                            *)

\* the statistic is unsupported, or doInterp is asked with a statistic that
\* gives no variance
Refused(cfg) ==
    \/ cfg.statistic \notin Property \/ cfg.statistic \in {"NOTHING", "ERROR", "ORMASK"}
    \/ cfg.doInterp /\ cfg.statistic \notin {"MEAN", "MEDIAN", "MEANCLIP", "VARIANCE", "VARIANCECLIP"}

\* C5 as stated: validate fails for every given configuration whose statistic
\* is unsupported or whose doInterp goes with a statistic outside the five,
\* whatever doSigmaClip and doPsfMatch are.
C5_ValidateAsStated ==
    (vpc # "loaded" /\ Refused(configIn)) => vpc = "error"

\* C5, amended: with doSigmaClip unset, validate fails for every configuration
\* whose statistic is NOTHING, ERROR or ORMASK or is not the name of an
\* attribute of afwMath.Property, and for every configuration whose doInterp
\* goes with a statistic outside the five, for either setting of doPsfMatch;
\* it passes for every other one (a name such as __doc__, an attribute that
\* is no statistic, passes without doInterp), and the task never runs after a
\* failure.  With doSigmaClip set, validate replaces the statistic by
\* MEANCLIP before its checks and passes.
C5_Validate ==
    /\ (vpc # "loaded" /\ ~configIn.doSigmaClip) =>
           /\ (vpc = "error") <=>
                  (Refused(configIn) /\ ~(configIn.statistic = "__doc__" /\ ~configIn.doInterp))
           /\ config.statistic = configIn.statistic
    /\ (vpc # "loaded" /\ configIn.doSigmaClip) =>
           /\ vpc # "error"
           /\ config.statistic = "MEANCLIP"
    /\ vpc = "running" => config.statistic \notin {"NOTHING", "ERROR", "ORMASK", "BOGUS", "mean"}

C5_Witness ==
    /\ vpc = "error"
    /\ ~configIn.doSigmaClip
    /\ configIn.doPsfMatch
    /\ configIn.statistic = "ORMASK"
    /\ ~configIn.doInterp

\* the epochs prepareInputs is expected to keep: the ones that are there,
\* scale, and have a finite weight 1/meanVar
Usable(kind) == kind \in {"var1", "var2"}

RECURSIVE UsableFrom(_, _)
UsableFrom(refs, i) ==
    IF i > Len(refs) THEN << >>
    ELSE IF Usable(refs[i]) THEN <<i>> \o UsableFrom(refs, i + 1)
    ELSE UsableFrom(refs, i + 1)

\* C6: prepareInputs never aborts because of one epoch; it returns, and the
\* three lists hold, in input order and index by index, exactly the epochs
\* that exist, scale and have a finite, computable weight (mean variance not
\* zero, NaN or infinite).
C6_PrepareNeverAborts ==
    /\ ppc # "aborted"
    /\ ppc = "returned" =>
          /\ tempExpRefList = UsableFrom(refList, 1)
          /\ imageScalerList = tempExpRefList
          /\ Len(weightList) = Len(tempExpRefList)
          /\ \A i \in 1 .. Len(tempExpRefList) :
                weightList[i] = Weight(refList[tempExpRefList[i]])

\* C7: when run returns a coadd with doInterp set, every variance is strictly
\* positive (finite or +inf): a variance that was zero, negative or NaN is now
\* +inf and a positive variance is what it was.
C7_VariancePositive ==
    (rpc = "returned" /\ doInterp) =>
        \A i \in VarPixels :
            /\ varArray[i] # NaN /\ varArray[i].n > 0
            /\ (varBefore[i] # NaN /\ varBefore[i].n > 0) => varArray[i] = varBefore[i]
            /\ (varBefore[i] = NaN \/ varBefore[i].n <= 0) => varArray[i] = Rat(1, 0)

C7_Witness ==
    /\ rpc = "returned" /\ doInterp
    /\ varBefore[1] = Rat(0, 1)
    /\ varBefore[2] = Rat(2, 1)
    /\ varArray[1] = Rat(1, 0)

----------------------------------------------------------------------------
(* Claims about Safe-Clip                                                  *)

ClipWarps == 1 .. Len(warpProfile)

\* the pixels of the region that warp i does not ignore, and the detected
\* ones among them, read off the warp's mask
Considered(i) == { p \in footprint : tmpExpMask(i)[p] \cap {"NO_DATA", "BAD", "SAT", "EDGE"} = {} }
Detected(i) == { p \in Considered(i) : tmpExpMask(i)[p] \cap {"DETECTED", "DETECTED_NEGATIVE"} # {} }

\* warp i overlaps the region, and its overlap fraction is above / at most num/100
Overlaps(i) == Detected(i) # {}
FractionAbove(i, num) == 100 * Cardinality(Detected(i)) > num * Cardinality(Considered(i))

\* the region is in the CLIPPED overlay of warp i
ClippedIn(i) == footprint \subseteq artifactSpanSets[i].CLIPPED

\* exactly the two warps of pair are above minClipFootOverlapDouble and every
\* other overlapping warp is at or below maxClipFootOverlapDouble
DoubleCase(pair) ==
    /\ Cardinality(pair) = 2
    /\ \A i \in ClipWarps :
          /\ i \in pair => Overlaps(i) /\ FractionAbove(i, 45)
          /\ (i \notin pair /\ Overlaps(i)) => ~FractionAbove(i, 15)

Counted(i) ==
    /\ overlapDetArr[i] # 0
    /\ ignoreArr[i] <= overlapDetArr[i]
    /\ 2 * ignoreArr[i] < nPixel

CountedAbove(i, num) == 100 * overlapDetArr[i] > num * (nPixel - ignoreArr[i])

MeanOf(S, p) ==
    IF S = {} THEN NaN
    ELSE Rat(SumOver([i \in ClipWarps |-> i * (1 + (i % 2)) * clipWarpImage(i, p)], S),
             SumOver([i \in ClipWarps |-> i], S))

\* the final coadd holds, at every pixel of the region, the mean of the warps
\* other than i that are not bad there
ExcludedFromMean(i) ==
    \A p \in footprint :
        clipCoadd[p].image =
            MeanOf({ k \in ClipWarps \ {i} : tmpExpMask(k)[p] \cap {"NO_DATA", "BAD", "SAT", "EDGE"} = {} }, p)

\* exactly warp i overlaps the region: its fraction is above
\* minClipFootOverlapSingle and no other warp has detected pixels in it
SingleCase(i) ==
    /\ FractionAbove(i, 50) /\ Overlaps(i)
    /\ \A k \in ClipWarps \ {i} :
          \A p \in footprint : tmpExpMask(k)[p] \cap {"DETECTED", "DETECTED_NEGATIVE"} = {}

\* C10 as stated: a region only epoch i overlaps is added to the CLIPPED
\* overlay of i and of no other epoch, and epoch i is left out of the mean of
\* the final coadd over the region.
C10_SingleAsStated ==
    \A i \in ClipWarps :
        SingleCase(i) =>
            /\ cpc # "scan" => (ClippedIn(i) /\ \A k \in ClipWarps \ {i} : artifactSpanSets[k].CLIPPED = {})
            /\ cpc = "returned" => ExcludedFromMean(i)

\* C10, amended: a region only epoch i overlaps, in which the pixels epoch i
\* ignores are no more than its detected pixels and fewer than half of the
\* region (counts as detectClip stores them), is added to the CLIPPED overlay
\* of i and of no other epoch, and epoch i is left out of the mean of the
\* final coadd over the region.
C10_Single ==
    \A i \in ClipWarps :
        (/\ Counted(i) /\ CountedAbove(i, 50)
         /\ \A k \in ClipWarps \ {i} :
               \A p \in footprint : tmpExpMask(k)[p] \cap {"DETECTED", "DETECTED_NEGATIVE"} = {})
        =>
            /\ cpc \notin {"scan", "idle"} =>
                   (ClippedIn(i) /\ \A k \in ClipWarps \ {i} : artifactSpanSets[k].CLIPPED = {})
            /\ cpc = "returned" => ExcludedFromMean(i)

C10_Witness ==
    /\ cpc = "returned"
    /\ nPixel = 8
    /\ Len(warpProfile) = 3
    /\ warpProfile[1] = [bad |-> 0, det |-> 0]
    /\ warpProfile[2] = [bad |-> 0, det |-> 5]
    /\ warpProfile[3] = [bad |-> 0, det |-> 0]
    /\ ClippedIn(2)
    /\ clipCoadd[<<0, 0>>].image = Rat(8, 4)
    /\ "CLIPPED" \in clipCoadd[<<0, 0>>].mask

\* C11 as stated: a region whose overlap fraction (detected over non-ignored
\* pixels) is above minClipFootOverlap in three or more epochs is added to no
\* epoch's CLIPPED overlay, and no region is assigned to more than two epochs.
C11_ThreeAsStated ==
    cpc # "scan" =>
        /\ Cardinality({ i \in ClipWarps : Overlaps(i) /\ FractionAbove(i, 60) }) >= 3
              => \A i \in ClipWarps : ~ClippedIn(i)
        /\ Cardinality({ i \in ClipWarps : ClippedIn(i) }) <= 2

\* C11, amended: a region whose overlap fraction is above minClipFootOverlap
\* in three or more of the epochs detectClip counts as overlapping (stored
\* detected count not zero and not below the stored ignored count, less than
\* half the region ignored) is added to no epoch's CLIPPED overlay; and no
\* region is ever assigned to more than two epochs.
C11_Three ==
    cpc # "scan" =>
        /\ Cardinality({ i \in ClipWarps : Counted(i) /\ CountedAbove(i, 60) }) >= 3
              => \A i \in ClipWarps : artifactSpanSets[i].CLIPPED = {}
        /\ Cardinality({ i \in ClipWarps : ClippedIn(i) }) <= 2

C11_Witness ==
    /\ cpc = "returned"
    /\ nPixel = 8
    /\ Len(warpProfile) = 4
    /\ \A i \in 1 .. 3 : warpProfile[i] = [bad |-> 0, det |-> 5]
    /\ warpProfile[4] = [bad |-> 0, det |-> 0]
    /\ \A i \in ClipWarps : artifactSpanSets[i].CLIPPED = {}
    /\ "CLIPPED" \notin clipCoadd[<<0, 0>>].mask

----------------------------------------------------------------------------
(* Claims about Compare-Warp                                               *)

CwWarps == 1 .. Len(warpDiffs)

\* the candidate regions detected on the difference image of warp i
Candidates(i) == IF warpDiffs[i].isNone THEN {} ELSE warpDiffs[i].footprints

\* the pixels of the region whose epoch count c has
\* 0 < c <= min(maxFractionEpochsLow*N, maxNumEpochs + maxFractionEpochsHigh*N),
\* N being the mean of the n-image over the region
TransientPixels(span) ==
    LET k == Cardinality(span)
        total == SumImage(cwNImage, span)
        lo == cwConfig.maxFractionEpochsLow
        hi == cwConfig.maxFractionEpochsHigh
    IN  { x \in span :
            /\ epochCountImage[x] > 0
            /\ epochCountImage[x] * lo.d * k <= lo.n * total
            /\ epochCountImage[x] * hi.d * k <= cwConfig.maxNumEpochs * hi.d * k + hi.n * total }

\* the fraction of such pixels is strictly greater than spatialThreshold
TransientEnough(span) ==
    Cardinality(TransientPixels(span)) * cwConfig.spatialThreshold.d
        > cwConfig.spatialThreshold.n * Cardinality(span)

\* the region lies inside a footprint detected on the template, and
\* doPreserveContainedBySource is set
Rescued(span) ==
    /\ cwConfig.doPreserveContainedBySource
    /\ \E fp \in templateFootprints.positive : span \subseteq fp

\* the region is among the artifacts of warp i
KeptIn(i, span) == span \in spanSetArtifactList[i]

C13_ContainedPreserved ==
    \A i \in CwWarps : \A span \in Candidates(i) :
        Rescued(span) =>
            /\ (cwpc = "filter" /\ cwI > i) => ~KeptIn(i, span)
            /\ cwpc = "returned" => \A k \in CwWarps : ~(span \subseteq cwAltMasks[k].CLIPPED)

C13_Witness ==
    /\ cwpc = "returned"
    /\ cwConfig.doPreserveContainedBySource
    /\ cwConfig.spatialThreshold = Rat(0, 1)
    /\ templateFootprints.positive = {{1, 2}}
    /\ Len(warpDiffs) = 5
    /\ warpDiffs[1].footprints = {{1, 2}}
    /\ warpDiffs[2].footprints = {{2, 3}}
    /\ TransientEnough({1, 2})
    /\ cwAltMasks[1].CLIPPED = {}
    /\ cwAltMasks[2].CLIPPED = {2, 3}

----------------------------------------------------------------------------
(* Claims about the loop of DcrAssembleCoaddTask.assemble                  *)

\* C15 as stated: dcrAssembleSubregion runs at most maxNumIter times for a
\* tile, and the loop of a tile stops before that only when the relative
\* improvement is not above convergenceThreshold and at least minNumIter
\* iterations have run.  (Stated for the tiles no iteration of which raised
\* and for maxNumIter >= 1.)
C15_AtMostMaxNumIter ==
    (dpc \in {"while", "for"} /\ dcrRaised = {} /\ dcrConfig.maxNumIter >= 1) =>
        /\ dcrCalls <= dcrConfig.maxNumIter
        /\ (dpc = "for" /\ tiles # << >> /\ dcrCalls < dcrConfig.maxNumIter) =>
               /\ ~Greater(convergenceCheck, convergenceThreshold)
               /\ dcrCalls >= dcrConfig.minNumIter

\* C16 as stated: when an iteration raises, the loop of that tile stops at
\* that iteration, so that the iteration that raised is the last call of
\* dcrAssembleSubregion for the tile, and the models are those written by an
\* iteration not later than it.
C16_StopsWhereRaised ==
    \A k \in dcrRaised :
        /\ dcrCalls = k + 1
        /\ dcrModels[Len(dcrModels)] <= k + 1

----------------------------------------------------------------------------
(* Claims about DcrAssembleCoaddTask.clampModel                            *)

\* a <= b for floats, False when either is NaN
LessEq(a, b) == a.n * b.d <= b.n * a.d /\ a # NaN /\ b # NaN

\* C18 as stated: the magnitude of the value clampModel returns is at most
\* modelClampFactor times that of the old value and at least that of the old
\* value over modelClampFactor, whatever the old value, the correction and
\* the variance.  (Stated for the finite corrections and variances.)
C18_ClampedAsStated ==
    (kpc = "returned" /\ isfinite(residual.image) /\ isfinite(residual.variance)) =>
        /\ LessEq(RAbs(newModel.image), RAbs(RScale(oldModel.image, modelClampFactor)))
        /\ LessEq(RAbs(ROver(oldModel.image, modelClampFactor)), RAbs(newModel.image))

\* C19 as stated: a pixel whose updated value is non-finite in the image or
\* in the variance is marked NO_DATA and zeroed, and clampModel returns no
\* non-finite value.  (Stated for the pixels whose updated image is
\* non-finite.)
C19_NonFiniteBlankedAsStated ==
    (kpc = "returned" /\ ~isfinite(PlusEquals(residual, oldModel).image)) =>
        /\ "NO_DATA" \in newModel.mask
        /\ newModel.image = Zero
        /\ newModel.variance = Zero

----------------------------------------------------------------------------
(* Claims about DcrAssembleCoaddTask.regularizeModel                       *)

\* C20: in exact arithmetic regularizeModel leaves the sum of a pixel over
\* the sub-bands unchanged, a negative mean and a model clipped from above
\* and then from below included; while it runs, the sum of the models and of
\* excess is that sum.
C20_SumPreserved ==
    /\ gpc = "loop" => QAdd(SumModels(dcrSubModelOut), excess) = SumModels(modelsBefore)
    /\ gpc = "returned" => SumModels(dcrSubModelOut) = SumModels(modelsBefore)

\* C20 witness: regularizeModel has returned for three models of negative
\* mean, one of which was clipped from above and then from below
C20_Witness ==
    /\ gpc = "returned"
    /\ Len(dcrSubModelOut) = 3
    /\ templateImage.n < 0
    /\ \E i \in DOMAIN clipsMade : clipsMade[i] = {"high", "low"}
    /\ dcrSubModelOut # modelsBefore

----------------------------------------------------------------------------
(* Claims about applyAltMaskPlanes and the order of assembleSubregion      *)

\* the mask of warp e over box as it is read, before applyAltMaskPlanes
MaskRead(e, box) == [p \in Pixels(box) |-> WarpMask(scene, bbox, e, p)]

\* the warps that carry an overlay, and the tiles assembleSubregion is given
Overlaid == { e \in Epochs : ~altMaskList[e].isNone }
TileBoxes == { tiles[i] : i \in 1 .. Len(tiles) }

\* the planes the overlay of warp e sets at pixel p
OverlayPlanes(e, p) ==
    { plane \in DOMAIN altMaskList[e].spans : p \in altMaskList[e].spans[plane] }

\* C23 as stated: applyAltMaskPlanes only ORs bits in, in every
\* configuration: every plane of the overlay is set on the pixels of its
\* regions inside the mask's box, no bit set before the call is cleared, and
\* the pixels outside all the regions are unchanged.
C23_OrOnlyAsStated ==
    \A e \in Overlaid : \A box \in TileBoxes : \A p \in Pixels(box) :
        /\ OverlayPlanes(e, p) \subseteq MaskWithAlt(e, box)[p]
        /\ MaskRead(e, box)[p] \subseteq MaskWithAlt(e, box)[p]
        /\ OverlayPlanes(e, p) = {} => MaskWithAlt(e, box)[p] = MaskRead(e, box)[p]

\* the pixels applyAltMaskPlanes clears first: those of the NO_DATA regions,
\* when doUsePsfMatchedPolygons is set and NO_DATA is a bad plane
ClearedFirst(e) ==
    IF /\ doUsePsfMatchedPolygons(strategy)
       /\ "NO_DATA" \in DOMAIN altMaskList[e].spans
       /\ "NO_DATA" \in badMaskPlanes(strategy)
    THEN altMaskList[e].spans["NO_DATA"]
    ELSE {}

\* C23, amended: every plane of the overlay is set on the pixels of its
\* regions inside the mask's box and the pixels outside all the regions are
\* unchanged; no bit set before the call is cleared, except that, with
\* doUsePsfMatchedPolygons set and NO_DATA both in the overlay and among
\* badMaskPlanes, the bits of badMaskPlanes are cleared on the pixels of the
\* overlay's NO_DATA regions before the overlay's planes are set.
C23_OrOnly ==
    \A e \in Overlaid : \A box \in TileBoxes : \A p \in Pixels(box) :
        MaskWithAlt(e, box)[p] =
            (IF p \in ClearedFirst(e)
             THEN MaskRead(e, box)[p] \ badMaskPlanes(strategy)
             ELSE MaskRead(e, box)[p]) \cup OverlayPlanes(e, p)

\* C23 witness: Compare-Warp has assembled a patch in which a warp had BAD
\* set on a pixel of its overlay's NO_DATA region, and the overlay cleared it
C23_Witness ==
    /\ pc = "returned"
    /\ failed = {}
    /\ \E e \in Overlaid : \E p \in Pixels(bbox) :
          /\ p \in ClearedFirst(e)
          /\ "BAD" \in MaskRead(e, bbox)[p]
          /\ "BAD" \notin MaskWithAlt(e, bbox)[p]
          /\ "NO_DATA" \in MaskWithAlt(e, bbox)[p]

\* C26: for every warp the overlay is applied before the planes of
\* removeMaskPlanes are cleared and before the stack, so that no mask handed
\* to statisticsStack carries a plane of removeMaskPlanes, even when the
\* overlay names it (as the EDGE overlay of Compare-Warp does); nor does any
\* pixel of the coadd.
C26_OverlayBeforeRemove ==
    /\ \A e \in Epochs : \A box \in TileBoxes : \A p \in Pixels(box) :
          MaskedImage(e, box)[p].mask \cap removeMaskPlanes(strategy) = {}
    /\ \A p \in DOMAIN coadd : coadd[p].mask \cap removeMaskPlanes(strategy) = {}

\* C26 witness: Compare-Warp has assembled a patch for which the overlay of
\* a warp set EDGE, a plane of removeMaskPlanes, on a pixel
C26_Witness ==
    /\ pc = "returned"
    /\ failed = {}
    /\ tiles # << >>
    /\ \E e \in Overlaid : \E p \in Pixels(bbox) :
          /\ "EDGE" \in removeMaskPlanes(strategy)
          /\ "EDGE" \in OverlayPlanes(e, p)
          /\ "EDGE" \in MaskWithAlt(e, bbox)[p]

----------------------------------------------------------------------------
(* Claims about detectClipBig and the counts of detectClip                 *)

\* the small clipped regions detectClip assigned to warp i
SmallClipped(i) ==
    IF \E k \in 1 .. Len(clipIndices) : i \in clipIndices[k] THEN footprint ELSE {}

\* the region detected in warp i is big: its area is at least minBigOverlap
\* and it shares more than minBigOverlap pixels with the small clipped
\* regions of warp i
IsBig(i) ==
    /\ Cardinality(visitFootprint(i)) >= minBigOverlap
    /\ Cardinality(visitFootprint(i) \cap SmallClipped(i)) > minBigOverlap

\* C25: detectClipBig adds to the CLIPPED overlay of a warp exactly those of
\* the warp's own detected regions whose area is at least minBigOverlap and
\* that share more than minBigOverlap pixels with the small clipped regions
\* of that warp; a warp with no small clipped region gains none, and no
\* other warp's overlay is changed.
C25_BigFootprints ==
    cpc \in {"big", "returned"} =>
        \A i \in 1 .. Len(warpProfile) :
            /\ artifactSpanSets[i].CLIPPED =
                   SmallClipped(i) \cup (IF IsBig(i) THEN visitFootprint(i) ELSE {})
            /\ SmallClipped(i) = {} => artifactSpanSets[i].CLIPPED = {}

\* C25 witness: of three warps one was clipped and gained its detected
\* region, which reaches past the candidate region; the others gained nothing
C25_Witness ==
    /\ cpc = "returned"
    /\ Len(warpProfile) = 3
    /\ \E i \in 1 .. 3 :
          /\ IsBig(i)
          /\ ~(artifactSpanSets[i].CLIPPED \subseteq footprint)
          /\ \A j \in (1 .. 3) \ {i} : artifactSpanSets[j].CLIPPED = {}

\* C29 as stated: the counts of ignored and of detected pixels that
\* detectClip stores for a warp and a candidate region are the true counts,
\* whatever the area of the region.
C29_CountsExact ==
    \A i \in 1 .. Len(warpProfile) :
        i < warpI =>
            /\ ignoreArr[i] = countMaskFromFootprint(tmpExpMask(i), footprint,
                                                     badMaskPlanes("safeClip"), {})
            /\ overlapDetArr[i] = countMaskFromFootprint(tmpExpMask(i), footprint, maskDetValue,
                                                         badMaskPlanes("safeClip"))

----------------------------------------------------------------------------
(* Claims about the gain and conditionDcrModel                             *)

\* v lies between a and b
Between(v, a, b) ==
    \/ LessEq(a, v) /\ LessEq(v, b)
    \/ LessEq(b, v) /\ LessEq(v, a)

\* C21 as stated: with doWeightGain the gain is oldMetric/newMetric limited
\* to [minGain, maxGain], and the value written back is
\* (old + gain*new)/(1 + gain), which lies between the old and the new
\* value; without doWeightGain the gain is 1.
C21_GainAsStated ==
    wpc = "written" =>
        /\ gainIn.doWeightGain => (LessEq(minGain, gain) /\ LessEq(gain, maxGain))
        /\ ~gainIn.doWeightGain => gain = Rat(1, 1)
        /\ Between(written.image, gainIn.oldModel.image, gainIn.newModel.image)

----------------------------------------------------------------------------
(* Claims about calculateConvergence                                       *)

\* C30: calculateSingleConvergence returns 0 for a warp with no usable pixel
\* in the tile, and what calculateConvergence returns for the tile is a
\* number.
C30_NoUsableIsZero ==
    /\ \A i \in 1 .. Len(metricList) :
           usePixels(exposures[i]) = {} => metricList[i] = Zero
    /\ qpc = "returned" => convergence.d # 0

----------------------------------------------------------------------------
(* Claims about dcrDivideCoadd                                             *)

\* C28: dcrDivideCoadd returns dcrNumSubfilters models that contain no NaN:
\* a pixel of the template whose image or variance is NaN is zero in image
\* and variance and flagged NO_DATA in every model, and every other pixel of
\* every model is the template's divided by dcrNumSubfilters (the template,
\* coaddExposure, is what was passed in).
C28_DividedNoNaN ==
    hpc = "returned" =>
        /\ Len(subBandImages) = dcrNumSubfilters
        /\ \A f \in DOMAIN subBandImages : \A p \in DOMAIN coaddExposure :
               LET t == coaddExposure[p]
                   model == subBandImages[f][p]
               IN  /\ ~isnan(model.image) /\ ~isnan(model.variance)
                   /\ IF isnan(t.image) \/ isnan(t.variance)
                      THEN /\ model.image = Zero /\ model.variance = Zero
                           /\ "NO_DATA" \in model.mask
                      ELSE /\ model.image = QOver(t.image, dcrNumSubfilters)
                           /\ model.variance = QOver(t.variance, dcrNumSubfilters)

----------------------------------------------------------------------------
(* Claims about dcrShiftCalculate and buildMatchedTemplate                 *)

\* C27: for every number of sub-bands, without the Fourier transform, the
\* shift computation yields dcrNumSubfilters shifts, and the matched
\* template is the sum of one shifted term for each sub-band model, none
\* omitted.
C27_OneShiftPerModel ==
    (mpc = "done" /\ ~shiftConfig.useFFT) =>
        /\ dcrShiftCalculate(shiftConfig).raised = ""
        /\ Len(dcrShiftCalculate(shiftConfig).dcrShift) = shiftConfig.dcrNumSubfilters
        /\ matchedTemplate.raised = ""
        /\ Len(matchedTemplate.terms) = Len(shiftModels)
        /\ \A k \in DOMAIN shiftModels : matchedTemplate.terms[k].model = shiftModels[k]

----------------------------------------------------------------------------
(* Claims about the tiles of the DCR solver                                *)

\* C22: a tile writes only to its own box of the sub-band models, and the
\* models obtained for a tile do not depend on which tiles were solved before
\* it: they are what solving that tile first would give.
C22_TilesIndependent ==
    nSolved >= 1 =>
        \A k \in DOMAIN subModels : \A p \in 1 .. StripWidth :
            /\ p \notin tileBox(nSolved) => subModels[k][p] = subModelsBefore[k][p]
            /\ p \in tileBox(nSolved) =>
                   subModels[k][p] = dcrAssembleSubregion(StripModels, nSolved, stripIn)[k][p]

----------------------------------------------------------------------------
(* Claims about BestSeeingWcsSelectImagesTask.runDataRef                   *)

\* whether an image is within the limits that are set (not None)
WithinLimits(cfg, psfSize) ==
    /\ cfg.maxPsfFwhm # << >> => LessEq(sizeFwhm(psfSize), Rat(cfg.maxPsfFwhm[1], 1))
    /\ cfg.minPsfFwhm # << >> => LessEq(Rat(cfg.minPsfFwhm[1], 1), sizeFwhm(psfSize))

\* the images that intersect the patch and are within the limits
Eligible ==
    {i \in DOMAIN selectDataList :
        selectDataList[i].intersects /\ WithinLimits(selectConfig, selectDataList[i].psfSize)}

\* C24: every image returned is within minPsfFwhm and maxPsfFwhm when they
\* are set, at most nImagesMax images are returned, and they are those of
\* smallest PSF size among the images that intersect the patch and are
\* within the limits.
C24_BestSeeingWithinLimits ==
    ipc = "returned" =>
        LET returned == {filteredDataRefList[k] : k \in DOMAIN filteredDataRefList}
        IN  /\ returned \subseteq Eligible
            /\ Len(filteredDataRefList) <= selectConfig.nImagesMax
            /\ Cardinality(returned) =
                   IF Cardinality(Eligible) < selectConfig.nImagesMax
                   THEN Cardinality(Eligible) ELSE selectConfig.nImagesMax
            /\ \A i \in returned : \A j \in Eligible \ returned :
                   selectDataList[i].psfSize <= selectDataList[j].psfSize

=============================================================================
